---- MODULE Spec2Model ----
(***************************************************************************)
(* Dispatch and animation engine of the bus scheduler front end.           *)
(*                                                                         *)
(*   App      (src/unnamed/part_001)  prediction, logical clock, stop      *)
(*   BusMap   (src/unnamed/part_000)  schedule generator, spawner effect,  *)
(*                                    render tick, telemetry               *)
(*   findPath (src/utils/graph.ts)    breadth-first search                 *)
(*                                                                         *)
(* Three specifications share the variables:                               *)
(*   Spec       the running application (handlers, effects, render tick)   *)
(*   SchedSpec  generateDispatchSchedule applied to drawn inputs           *)
(*   PathSpec   findPath run loop iteration by loop iteration              *)
(*                                                                         *)
(* Numbers are integers: allocation, frequency and horizon are drawn from  *)
(* the non-negative integers, times are milliseconds.  State updates made  *)
(* by one handler are batched into one render, and the effects that render *)
(* triggers run with it (React 18 batching), so a handler together with    *)
(* its effect cascade is one action.                                       *)
(***************************************************************************)
EXTENDS Integers, Sequences, FiniteSets, TLC

VARIABLES
  \* ---- App state (part_001:12-28)
  totalCycles,        \* horizon typed into "Cycle Duration (s)"
  isPredicting,       \* a prediction request is in flight
  peopleCounts,       \* stop id -> people counted by the last prediction
  simulationData,     \* <<>> (null) or <<routes>> of the last prediction
  simulationTime,     \* the logical clock, in seconds
  isSimulating,       \* the logical clock is running
  busStats,           \* last telemetry snapshot delivered to App
  toastMessage,       \* last user-visible message
  \* ---- BusMap state (part_000:59-71)
  dispatchSchedule,   \* second -> sequence of route ids
  busesRef,           \* the active set (busesRef.current)
  simulatedBuses,     \* the rendered vehicle list
  completedCountsRef, \* route id -> completed vehicles
  loopRoutes,         \* routesAnalytics as captured by the animate closure
  now,                \* performance.now() / the frame timestamp
  \* ---- bookkeeping of the model
  nextId,             \* next fresh vehicle id
  history,            \* vehicle id -> route and lifecycle states gone through
  \* ---- generateDispatchSchedule applied on its own
  schedPc,
  \* ---- findPath (graph.ts:3-37)
  startId, endId, edges, queue, visited, result, pathPc,
  \* ---- manual mode: App state (part_001:12-14) and BusMap refs
  \* (part_000:67-71)
  sourceId,           \* selected origin stop
  targetId,           \* selected destination stop
  isAnimating,        \* a manual trip is under way
  stateRef,           \* phase of the single vehicle
  currentSegmentRef,  \* segment of the single vehicle
  startTimeRef,       \* start of its current segment; 0 is null (the code
                      \* tests the refs with ! and ||, which take 0 for null)
  pauseTimeRef,       \* start of its current dwell; 0 is null
  requestRef,         \* the animation frame the loop has requested
  \* ---- bookkeeping of the model for manual trips
  stopReached,        \* labels passed to onStopReached since the trip started
  tripPath,           \* path of the trip; <<>> once the selection changed
  \* ---- the curve functions (geometry.ts) applied on their own
  geom,
  \* ---- the exception an effect or a frame callback threw and nobody
  \* caught; "none" while the application is mounted
  uncaught

appVars == <<totalCycles, isPredicting, peopleCounts, simulationData, simulationTime,
             isSimulating, busStats, toastMessage, dispatchSchedule, busesRef,
             simulatedBuses, completedCountsRef, loopRoutes, now, nextId,
             history, uncaught>>
pathVars == <<startId, endId, edges, queue, visited, result, pathPc>>
manualVars == <<sourceId, targetId, isAnimating, stateRef, currentSegmentRef,
                startTimeRef, pauseTimeRef, requestRef, stopReached, tripPath>>
vars == <<appVars, schedPc, pathVars, geom, manualVars>>

\* no call of the curve functions under way
GeomIdle == [pc |-> "idle"]

\* manual mode after mount: useState('B1'), useState('B7'), useState(false)
\* (part_001:12-14), the refs' initial values (part_000:68-71), and the frame
\* requested by the animation effect (part_000:185)
InitManual ==
  /\ sourceId = "B1" /\ targetId = "B7" /\ isAnimating = FALSE
  /\ stateRef = "MOVING" /\ currentSegmentRef = 0
  /\ startTimeRef = 0 /\ pauseTimeRef = 0
  /\ requestRef = "requested"
  /\ stopReached = <<>> /\ tripPath = <<>>

----------------------------------------------------------------------------
\* Bounds of the model

\* SchedSpec: largest horizon, frequency and allocation drawn
MaxHorizon == 5
MaxFreq == 3
MaxAlloc == 3

\* PathSpec: longest drawn edge list
MaxEdges == 3

\* Spec: last second the clock is followed to, vehicles spawned in one
\* behaviour, and last frame timestamp
MaxSecond == 2
MaxVehicles == 2
MaxTime == 9000

----------------------------------------------------------------------------
\* Helpers

Min(a, b) == IF a < b THEN a ELSE b

EmptyMap == [k \in {} |-> 0]

\* obj[k] || 0
Get0(obj, k) == IF k \in DOMAIN obj THEN obj[k] ELSE 0

\* number of positions of seq holding x
Occ(seq, x) == Cardinality({i \in 1..Len(seq) : seq[i] = x})

RECURSIVE SumOver(_, _)
SumOver(f, S) ==
  IF S = {} THEN 0
  ELSE LET k == CHOOSE k \in S : TRUE IN f[k] + SumOver(f, S \ {k})

----------------------------------------------------------------------------
\* generateDispatchSchedule (part_000:88-122)

\* Math.floor(totalCycles / freq), for freq > 0
MaxPossibleWindows(horizon, freq) == horizon \div freq

BusesToScheduleNoWindowLimit(allocated, horizon, freq) == allocated

\* Math.min(allocated, maxPossibleWindows).  With freq = 0 the quotient is
\* Infinity, and the minimum allocated; with the horizon 0 too it is NaN, and
\* the loop condition i < NaN lets the loop run 0 times.
BusesToSchedule(allocated, horizon, freq) ==
  IF freq = 0 THEN (IF horizon = 0 THEN 0 ELSE allocated)
  ELSE Min(allocated, MaxPossibleWindows(horizon, freq))

DispatchTimesInclusiveEnd(minTime, maxTime) == minTime..maxTime

\* Math.floor(Math.random() * (maxTime - minTime)) + minTime
DispatchTimes(minTime, maxTime) == minTime..(maxTime - 1)

WindowStartAlwaysZero(i, freq) == 0

\* const windowStart = i * freq
WindowStart(i, freq) == i * freq

\* const windowEnd = (i + 1) * freq
WindowEnd(i, freq) == (i + 1) * freq

PushOverwrite(schedule, dispatchTime, routeId) ==
  IF dispatchTime \in DOMAIN schedule
  THEN [schedule EXCEPT ![dispatchTime] = <<routeId>>]
  ELSE schedule @@ (dispatchTime :> <<routeId>>)

\* if (!schedule[t]) schedule[t] = []; schedule[t].push(routeId)
Push(schedule, dispatchTime, routeId) ==
  IF dispatchTime \in DOMAIN schedule
  THEN [schedule EXCEPT ![dispatchTime] = Append(@, routeId)]
  ELSE schedule @@ (dispatchTime :> <<routeId>>)

\* The for loop of one route from window i on, over every draw of the random
\* source: the set of schedules it can leave.
RECURSIVE WindowLoop(_, _, _, _, _)
WindowLoop(schedules, route, i, busesToSchedule, horizon) ==
  IF i >= busesToSchedule THEN schedules
  ELSE
    LET freq == route.frequency_minutes
        windowStart == WindowStart(i, freq)
        windowEnd == WindowEnd(i, freq)
        maxTime == Min(windowEnd, horizon)
        minTime == windowStart
    IN IF maxTime > minTime
       THEN WindowLoop({Push(s, t, route.route_id) :
                          s \in schedules, t \in DispatchTimes(minTime, maxTime)},
                       route, i + 1, busesToSchedule, horizon)
       ELSE WindowLoop(schedules, route, i + 1, busesToSchedule, horizon)

\* routesAnalytics.forEach from route k on
RECURSIVE RouteLoop(_, _, _, _)
RouteLoop(schedules, routes, k, horizon) ==
  IF k > Len(routes) THEN schedules
  ELSE RouteLoop(
         WindowLoop(schedules, routes[k], 0,
                    BusesToSchedule(routes[k].buses_allocated, horizon,
                                    routes[k].frequency_minutes),
                    horizon),
         routes, k + 1, horizon)

\* every schedule generateDispatchSchedule can hand to setDispatchSchedule
GenerateDispatchSchedule(routes, horizon) ==
  RouteLoop({EmptyMap}, routes, 1, horizon)

\* entries of route rid recorded in a schedule
Entries(schedule, rid) ==
  SumOver([s \in DOMAIN schedule |-> Occ(schedule[s], rid)], DOMAIN schedule)

\* entries of route rid recorded in seconds lo .. hi-1
EntriesIn(schedule, rid, lo, hi) ==
  LET S == {s \in DOMAIN schedule : lo <= s /\ s < hi}
  IN SumOver([s \in S |-> Occ(schedule[s], rid)], S)

TotalEntries(schedule) ==
  SumOver([s \in DOMAIN schedule |-> Len(schedule[s])], DOMAIN schedule)

----------------------------------------------------------------------------
\* SchedSpec: the generator applied to drawn inputs

RouteAnalytics(rid, allocated, freq) ==
  [route_id |-> rid, buses_allocated |-> allocated, frequency_minutes |-> freq]

SchedRoute(rid) ==
  {RouteAnalytics(rid, a, f) : a \in 0..MaxAlloc, f \in 0..MaxFreq}

\* one or two routes with distinct ids, in either order
SchedInputs ==
  {<<r>> : r \in SchedRoute(1) \cup SchedRoute(2)}
  \cup {<<r1, r2>> : r1 \in SchedRoute(1), r2 \in SchedRoute(2)}
  \cup {<<r2, r1>> : r1 \in SchedRoute(1), r2 \in SchedRoute(2)}


\* Next is defined after every action, at the end of the module.
SchedInit ==
  /\ simulationData \in {<<r>> : r \in SchedInputs}
  /\ totalCycles \in 0..MaxHorizon
  /\ dispatchSchedule = EmptyMap
  /\ schedPc = "call"
  /\ isPredicting = FALSE /\ simulationTime = 0 /\ isSimulating = FALSE
  /\ peopleCounts = EmptyMap
  /\ busStats = EmptyMap /\ toastMessage = "null"
  /\ busesRef = <<>> /\ simulatedBuses = <<>>
  /\ completedCountsRef = EmptyMap /\ loopRoutes = <<>>
  /\ now = 0 /\ nextId = 1 /\ history = EmptyMap
  /\ InitManual
  /\ geom = GeomIdle /\ uncaught = "none"
  /\ startId = "none" /\ endId = "none" /\ edges = <<>> /\ queue = <<>>
  /\ visited = {} /\ result = <<>> /\ pathPc = "idle"

\* generateDispatchSchedule(): setDispatchSchedule(schedule)
SchedGenerate ==
  /\ schedPc = "call"
  /\ dispatchSchedule' \in GenerateDispatchSchedule(simulationData[1], totalCycles)
  /\ schedPc' = "done"
  /\ UNCHANGED <<peopleCounts, totalCycles, isPredicting, simulationData, simulationTime,
                 isSimulating, busStats, toastMessage, busesRef, simulatedBuses,
                 completedCountsRef, loopRoutes, now, nextId, history,
                 pathVars, geom, uncaught,
                 manualVars>>

SchedNext == SchedGenerate

SchedSpec == SchedInit /\ [][SchedNext]_vars


\* the routes handed to the generator
routesAnalytics == IF simulationData = <<>> THEN <<>> ELSE simulationData[1]

\* the number of vehicles the spec promises for a route
UsableWindows(route) == totalCycles \div route.frequency_minutes

\* C4: the entries recorded for a route never exceed its allocated count, nor
\* (for a frequency of at least 1) floor(horizon / frequency): at most
\* min(buses_allocated, floor(horizon / frequency)).
C4_EntriesAtMostAllocatedAndWindows ==
  schedPc = "done" =>
    \A k \in 1..Len(routesAnalytics) :
      LET route == routesAnalytics[k]
          n == Entries(dispatchSchedule, route.route_id)
      IN /\ n <= route.buses_allocated
         /\ route.frequency_minutes >= 1 => n <= UsableWindows(route)

\* a route whose allocation exceeds its usable windows got exactly the windows
C4_Witness_AllocationDropped ==
  /\ schedPc = "done"
  /\ \E k \in 1..Len(routesAnalytics) :
       LET route == routesAnalytics[k] IN
       /\ route.frequency_minutes >= 1
       /\ route.buses_allocated > UsableWindows(route)
       /\ UsableWindows(route) >= 2
       /\ Entries(dispatchSchedule, route.route_id) = UsableWindows(route)

C6_OnePerUsedWindow ==
  schedPc = "done" =>
    \A k \in 1..Len(routesAnalytics) :
      LET route == routesAnalytics[k]
          f == route.frequency_minutes
          n == Min(route.buses_allocated, UsableWindows(route))
      IN f >= 1 =>
           /\ \A i \in 0..(n - 1) :
                EntriesIn(dispatchSchedule, route.route_id, i * f, (i + 1) * f) = 1
           /\ Entries(dispatchSchedule, route.route_id) = n

\* the spec's example scaled down (allocated 3, frequency 2, horizon 5): two
\* entries, one in [0,2) and one in [2,4), the third vehicle dropped
C6_Witness_ScaledExample ==
  /\ schedPc = "done"
  /\ totalCycles = 5
  /\ \E k \in 1..Len(routesAnalytics) :
       LET route == routesAnalytics[k] IN
       /\ route.buses_allocated = 3 /\ route.frequency_minutes = 2
       /\ Entries(dispatchSchedule, route.route_id) = 2
       /\ EntriesIn(dispatchSchedule, route.route_id, 0, 2) = 1
       /\ EntriesIn(dispatchSchedule, route.route_id, 2, 4) = 1


----------------------------------------------------------------------------
\* The network (src/unnamed/part_002)

\* keys of NODES
NODES == {"B1", "B2", "B3", "B4", "B5", "B6", "B7", "B8", "B9", "B10"}

Edge(a, b) == [from |-> a, to |-> b]

EDGES ==
  <<Edge("B1", "B2"), Edge("B2", "B3"), Edge("B3", "B4"), Edge("B3", "B6"),
    Edge("B4", "B5"), Edge("B6", "B7"), Edge("B6", "B8"), Edge("B6", "B10"),
    Edge("B8", "B9")>>

----------------------------------------------------------------------------
\* findPath (graph.ts:3-37)

SameStopResultNull(start) == <<>>

\* if (startId === endId) return [startId]
SameStopResult(start) == <<start>>

NeighborsAgainstDirection(edgeList, id) ==
  LET into == SelectSeq(edgeList, LAMBDA e : e.to = id)
  IN [i \in 1..Len(into) |-> into[i].from]

\* edges.filter(e => e.from === current.id).map(e => e.to)
Neighbors(edgeList, id) ==
  LET out == SelectSeq(edgeList, LAMBDA e : e.from = id)
  IN [i \in 1..Len(out) |-> out[i].to]

NeighborPathLastHopOnly(current, neighbor) == <<current.id, neighbor>>

\* path: [...current.path, neighbor]
NeighborPath(current, neighbor) == Append(current.path, neighbor)

\* for (const neighbor of neighbors) from position k on: the visited set and
\* the queue it leaves
RECURSIVE EnqueueLoop(_, _, _, _, _)
EnqueueLoop(neighbors, k, current, seen, q) ==
  IF k > Len(neighbors) THEN [visited |-> seen, queue |-> q]
  ELSE IF neighbors[k] \notin seen
       THEN EnqueueLoop(neighbors, k + 1, current, seen \cup {neighbors[k]},
                        Append(q, [id |-> neighbors[k],
                                   path |-> NeighborPath(current, neighbors[k])]))
       ELSE EnqueueLoop(neighbors, k + 1, current, seen, q)

\* lines 4-8: the early return, or the initial queue and visited set
FindPathCall ==
  /\ pathPc = "call"
  /\ IF startId = endId
     THEN /\ result' = SameStopResult(startId)
          /\ pathPc' = "return"
          /\ UNCHANGED <<queue, visited>>
     ELSE /\ queue' = <<[id |-> startId, path |-> <<startId>>]>>
          /\ visited' = {}
          /\ pathPc' = "loop"
          /\ UNCHANGED result
  /\ UNCHANGED <<startId, endId, edges, appVars, schedPc, manualVars, geom>>

\* a loop that starts the search again when the queue has run empty
FindPathLoopNeverGivesUp ==
  /\ pathPc = "loop"
  /\ IF queue = <<>>
     THEN /\ queue' = <<[id |-> startId, path |-> <<startId>>]>>
          /\ visited' = {}
          /\ UNCHANGED <<result, pathPc>>
     ELSE LET current == Head(queue) IN
          IF current.id = endId
          THEN /\ result' = current.path
               /\ pathPc' = "return"
               /\ queue' = Tail(queue)
               /\ UNCHANGED visited
          ELSE LET after == EnqueueLoop(Neighbors(edges, current.id), 1,
                                        current, visited, Tail(queue))
               IN /\ visited' = after.visited
                  /\ queue' = after.queue
                  /\ UNCHANGED <<result, pathPc>>
  /\ UNCHANGED <<startId, endId, edges, appVars, schedPc, manualVars, geom>>

\* one evaluation of the while condition and, if it holds, of the loop body
FindPathLoop ==
  /\ pathPc = "loop"
  /\ IF queue = <<>>
     THEN /\ result' = <<>>                      \* return null
          /\ pathPc' = "return"
          /\ UNCHANGED <<queue, visited>>
     ELSE LET current == Head(queue) IN          \* queue.shift()
          IF current.id = endId
          THEN /\ result' = current.path
               /\ pathPc' = "return"
               /\ queue' = Tail(queue)
               /\ UNCHANGED visited
          ELSE LET after == EnqueueLoop(Neighbors(edges, current.id), 1,
                                        current, visited, Tail(queue))
               IN /\ visited' = after.visited
                  /\ queue' = after.queue
                  /\ UNCHANGED <<result, pathPc>>
  /\ UNCHANGED <<startId, endId, edges, appVars, schedPc, manualVars, geom>>

\* the while loop as a whole: what findPath returns from a queue and a
\* visited set (<<>> is null)
RECURSIVE FindPathFrom(_, _, _, _)
FindPathFrom(q, seen, end, edgeList) ==
  IF q = <<>> THEN <<>>
  ELSE LET current == Head(q) IN
       IF current.id = end THEN current.path
       ELSE LET after == EnqueueLoop(Neighbors(edgeList, current.id), 1,
                                     current, seen, Tail(q))
            IN FindPathFrom(after.queue, after.visited, end, edgeList)

\* findPath(startId, endId, edges) as one call
findPath(start, end, edgeList) ==
  IF start = end THEN SameStopResult(start)
  ELSE FindPathFrom(<<[id |-> start, path |-> <<start>>]>>, {}, end, edgeList)

\* PathSpec: findPath on drawn inputs

PathNodes == {"B1", "B2", "B3"}

RECURSIVE EdgeListsOfLen(_)
EdgeListsOfLen(n) ==
  IF n = 0 THEN {<<>>}
  ELSE {Append(l, Edge(a, b)) : l \in EdgeListsOfLen(n - 1),
                                a \in PathNodes, b \in PathNodes}

\* every edge list of up to MaxEdges edges over three stops (cycles,
\* self-loops and duplicates included), and the network's own edge list
PathInputs ==
  {[edges |-> l, startId |-> a, endId |-> b] :
     l \in UNION {EdgeListsOfLen(n) : n \in 0..MaxEdges},
     a \in PathNodes, b \in PathNodes}
  \cup {[edges |-> EDGES, startId |-> a, endId |-> b] : a \in NODES, b \in NODES}

PathInit ==
  /\ \E in \in PathInputs :
       edges = in.edges /\ startId = in.startId /\ endId = in.endId
  /\ queue = <<>> /\ visited = {} /\ result = <<>> /\ pathPc = "call"
  /\ totalCycles = 60 /\ simulationData = <<>> /\ dispatchSchedule = EmptyMap
  /\ schedPc = "idle"
  /\ isPredicting = FALSE /\ simulationTime = 0 /\ isSimulating = FALSE
  /\ peopleCounts = EmptyMap
  /\ busStats = EmptyMap /\ toastMessage = "null"
  /\ busesRef = <<>> /\ simulatedBuses = <<>>
  /\ completedCountsRef = EmptyMap /\ loopRoutes = <<>>
  /\ now = 0 /\ nextId = 1 /\ history = EmptyMap
  /\ InitManual
  /\ geom = GeomIdle /\ uncaught = "none"

PathNext == FindPathCall \/ FindPathLoop

PathSpec == PathInit /\ [][PathNext]_vars

\* ---- what the claims about findPath compare the result with

EdgePairs == {<<edges[i].from, edges[i].to>> : i \in 1..Len(edges)}

GraphNodes ==
  {startId, endId} \cup {e[1] : e \in EdgePairs} \cup {e[2] : e \in EdgePairs}

\* stops reachable from startId over at most k edges
RECURSIVE ReachWithin(_)
ReachWithin(k) ==
  IF k = 0 THEN {startId}
  ELSE LET R == ReachWithin(k - 1)
       IN R \cup {n \in GraphNodes : \E m \in R : <<m, n>> \in EdgePairs}

Reachable == endId \in ReachWithin(Cardinality(GraphNodes))

\* least number of edges of a directed path from startId to endId
Distance ==
  CHOOSE k \in 0..Cardinality(GraphNodes) :
    /\ endId \in ReachWithin(k)
    /\ \A j \in 0..(k - 1) : endId \notin ReachWithin(j)

IsDirectedPath(path) ==
  /\ Len(path) >= 1
  /\ path[1] = startId
  /\ path[Len(path)] = endId
  /\ \A i \in 1..(Len(path) - 1) : <<path[i], path[i + 1]>> \in EdgePairs

\* C7: for start # end, a non-null result begins with start, ends with end,
\* follows an edge of the list at every step, and has the least edge count of
\* all directed paths from start to end.
C7_ResultIsShortestPath ==
  (pathPc = "return" /\ startId # endId /\ result # <<>>) =>
    /\ IsDirectedPath(result)
    /\ Len(result) - 1 = Distance

\* the direct edge is returned although the list starts with the first edge
\* of a two-edge way round
C7_Witness_DirectEdgeBeatsDetour ==
  /\ pathPc = "return" /\ startId # endId
  /\ Len(result) = 2
  /\ \E n \in GraphNodes \ {startId, endId} :
       edges[1] = Edge(startId, n) /\ <<n, endId>> \in EdgePairs

\* C8: for start # end, findPath returns null exactly when no directed path
\* from start to end exists.
C8_NullIffUnreachable ==
  (pathPc = "return" /\ startId # endId) => ((result = <<>>) <=> ~Reachable)

\* null is returned from a graph with a cycle through start that never
\* reaches end
C8_Witness_NullWithCycle ==
  /\ pathPc = "return" /\ startId # endId /\ result = <<>>
  /\ \E n \in GraphNodes : n # startId /\ <<startId, n>> \in EdgePairs
                           /\ <<n, startId>> \in EdgePairs

\* C9: findPath(x, x, edges) is the single-element path [x], whatever the
\* edge list.
C9_SameStopSinglePath ==
  (pathPc = "return" /\ startId = endId) => result = <<startId>>

\* returned for a stop that occurs in no edge of a non-empty list, and for
\* the empty list
C9_Witness_StopNotInEdges ==
  /\ pathPc = "return" /\ startId = endId /\ result = <<startId>>
  /\ edges # <<>>
  /\ \A e \in EdgePairs : startId # e[1] /\ startId # e[2]


----------------------------------------------------------------------------
\* BusMap: routes, spawner effect and render tick (src/unnamed/part_000)

STOP_DURATION == 1000
DESTINATION_WAIT == 2000
TRAVEL_DURATION == 2000

\* useState<number>(60)
DefaultCycles == 60

Route(id, path) == [id |-> id, path |-> path]

\* Route definitions over the network: a three-stop and a two-stop path whose
\* edges all exist, a single-stop route, and a path whose second pair, B3 to
\* B1, has no edge, a path whose first stop, B11, is not a key of NODES, and
\* a second route over the path of route 1, in another lane.  (The four
\* shipped routes are five- and six-stop paths whose edges all exist; route
\* 1 here is their common beginning.)
ROUTES ==
  <<Route(1, <<"B1", "B2", "B3">>), Route(2, <<"B1", "B2">>),
    Route(3, <<"B3">>), Route(4, <<"B2", "B3", "B1">>),
    Route(5, <<"B11", "B2">>), Route(6, <<"B1", "B2", "B3">>)>>

\* predictions the server may answer with (data.routes)
Responses ==
  {<<RouteAnalytics(1, 1, 1), RouteAnalytics(3, 1, 2)>>,
   <<RouteAnalytics(2, 2, 1), RouteAnalytics(4, 1, 1)>>}

\* data.slot_counts of the predictions of the model
SlotCounts == [n \in {"B1", "B2"} |-> IF n = "B1" THEN 2 ELSE 0]

\* values typed into the horizon input
CycleValues == {0, 1, DefaultCycles}

\* time between two animation frames
FrameSteps == {1000, 2000}

\* no effect or frame callback has thrown: React unmounts a tree in which an
\* uncaught error was thrown (part_000 and part_001 have no error boundary),
\* and with it the handlers, the timer and the animation loop
Mounted == uncaught = "none"

\* simulationMode={isSimulating || !!simulationData}
simulationMode == isSimulating \/ simulationData # <<>>

\* const laneWidth = 14
laneWidth == 14

\* laneOffset = (laneIndex - 1.5) * laneWidth with laneIndex =
\* (bus.routeId - 1) % 4, that is -21, -7, 7 or 21 (part_000:327-329)
LaneOffset(routeId) == (2 * ((routeId - 1) % 4) - 3) * (laneWidth \div 2)

\* t = Math.min(elapsed / TRAVEL_DURATION, 1) in thousandths (part_000:314)
CurveParameter(elapsed) == Min((elapsed * 1000) \div TRAVEL_DURATION, 1000)

\* A coordinate of a vehicle.  The curve point and the trigonometry of the
\* lane offset are real-valued, so the coordinate is kept as the term that
\* determines it: the axis, the segment, the curve parameter t and the lane
\* offset, for pos.x + laneOffset * Math.cos(normalRad) and pos.y +
\* laneOffset * Math.sin(normalRad) (part_000:316-336).  With from = to and
\* offset 0 it is the coordinate of the stop itself (startNode.x at spawn).
\* At t = 1 the curve point is the node toNode, so that the snap of
\* part_000:345-346 assigns the same coordinate again.
Coordinate(axis, fromId, toId, t, offset) ==
  [axis |-> axis, from |-> fromId, to |-> toId, t |-> t, offset |-> offset]

\* bus.rotation = rot, the tangent angle of the segment at t (part_000:317,
\* 337)
Rotation(fromId, toId, t) == [from |-> fromId, to |-> toId, t |-> t]

\* rotation: 0 of a spawned vehicle (part_000:153)
NoRotation == Rotation("none", "none", 0)

\* EDGES.find(e => e.from === fromId && e.to === toId) finds an edge
EdgeFound(fromId, toId) ==
  \E i \in 1..Len(EDGES) : EDGES[i].from = fromId /\ EDGES[i].to = toId

\* ROUTES.find(r => r.id === routeId) && staticRoute.path.length > 0
Spawnable(routeId) ==
  \E k \in 1..Len(ROUTES) : ROUTES[k].id = routeId /\ Len(ROUTES[k].path) > 0

StaticRoute(routeId) ==
  ROUTES[CHOOSE k \in 1..Len(ROUTES) :
           /\ ROUTES[k].id = routeId
           /\ \A j \in 1..(k - 1) : ROUTES[j].id # routeId]

\* the vehicle pushed to newBuses (part_000:143-154)
NewBus(routeId, id, time) ==
  LET startNode == StaticRoute(routeId).path[1]
  IN [id |-> id, routeId |-> routeId, path |-> StaticRoute(routeId).path,
      currentSegment |-> 0, state |-> "MOVING", lastStateChangeTime |-> time,
      x |-> Coordinate("x", startNode, startNode, 0, 0),
      y |-> Coordinate("y", startNode, startNode, 0, 0),
      rotation |-> NoRotation]

\* the spawner effect's newBuses for one second of a schedule (part_000:131-156)
NewBuses(schedule, second, firstId, time) ==
  IF second \notin DOMAIN schedule THEN <<>>
  ELSE LET routesToSpawn == SelectSeq(schedule[second], Spawnable)
       IN [i \in 1..Len(routesToSpawn) |->
             NewBus(routesToSpawn[i], firstId + i - 1, time)]

\* path[k] of the source is path[k + 1] here
StopAt(bus, k) == bus.path[k + 1]

IsFinalOneStopLate(bus) == bus.currentSegment + 1 = Len(bus.path)

\* const isFinal = segmentIndex + 1 === bus.path.length - 1
IsFinal(bus) == bus.currentSegment + 1 = Len(bus.path) - 1

\* const duration = bus.state === 'WAITING_FINAL' ? DESTINATION_WAIT : STOP_DURATION
WaitDuration(bus) ==
  IF bus.state = "WAITING_FINAL" THEN DESTINATION_WAIT ELSE STOP_DURATION

AfterWaitAlwaysMoving(bus, time) ==
  [bus EXCEPT !.state = "MOVING", !.currentSegment = @ + 1,
              !.lastStateChangeTime = time]

AfterWaitPlacedOnNextSegment(bus, time) ==
  IF bus.state = "WAITING_FINAL"
  THEN [bus EXCEPT !.state = "FINISHED"]
  ELSE LET fromId == StopAt(bus, bus.currentSegment + 1)
           toId == StopAt(bus, bus.currentSegment + 2)
           laneOffset == LaneOffset(bus.routeId)
       IN [bus EXCEPT !.state = "MOVING", !.currentSegment = @ + 1,
                      !.lastStateChangeTime = time,
                      !.x = Coordinate("x", fromId, toId, 0, laneOffset),
                      !.y = Coordinate("y", fromId, toId, 0, laneOffset),
                      !.rotation = Rotation(fromId, toId, 0)]

\* the branch taken when the dwell has run out (part_000:273-280)
AfterWait(bus, time) ==
  IF bus.state = "WAITING_FINAL"
  THEN [bus EXCEPT !.state = "FINISHED"]
  ELSE [bus EXCEPT !.state = "MOVING", !.currentSegment = @ + 1,
                   !.lastStateChangeTime = time]

StepWaitingLeavesAtDwell(bus, time) ==
  LET elapsedWait == time - bus.lastStateChangeTime
  IN IF elapsedWait >= WaitDuration(bus) THEN AfterWait(bus, time) ELSE bus

\* Handle Waiting (part_000:268-283)
StepWaiting(bus, time) ==
  LET elapsedWait == time - bus.lastStateChangeTime
  IN IF elapsedWait > WaitDuration(bus) THEN AfterWait(bus, time) ELSE bus

StepMovingFinishesOnArrival(bus, time) ==
  LET segmentIndex == bus.currentSegment IN
  IF segmentIndex >= Len(bus.path) - 1
  THEN [bus EXCEPT !.state = "FINISHED"]
  ELSE IF ~EdgeFound(StopAt(bus, segmentIndex), StopAt(bus, segmentIndex + 1))
  THEN [bus EXCEPT !.state = "FINISHED"]
  ELSE LET elapsed == time - bus.lastStateChangeTime IN
       IF elapsed >= TRAVEL_DURATION
       THEN [bus EXCEPT !.state = IF IsFinal(bus) THEN "FINISHED"
                                  ELSE "WAITING",
                        !.lastStateChangeTime = time]
       ELSE bus

StepMovingOuterLaneSlower(bus, time) ==
  LET segmentIndex == bus.currentSegment IN
  IF segmentIndex >= Len(bus.path) - 1
  THEN [bus EXCEPT !.state = "FINISHED"]
  ELSE IF ~EdgeFound(StopAt(bus, segmentIndex), StopAt(bus, segmentIndex + 1))
  THEN [bus EXCEPT !.state = "FINISHED"]
  ELSE LET fromId == StopAt(bus, segmentIndex)
           toId == StopAt(bus, segmentIndex + 1)
           laneOffset == LaneOffset(bus.routeId)
           elapsed == time - bus.lastStateChangeTime
           t == CurveParameter(elapsed)
           placed == [bus EXCEPT
                        !.x = Coordinate("x", fromId, toId, t, laneOffset),
                        !.y = Coordinate("y", fromId, toId, t, laneOffset),
                        !.rotation = Rotation(fromId, toId, t)]
       IN IF elapsed >= TRAVEL_DURATION + 50 * (laneOffset + 21)
          THEN [placed EXCEPT !.state = IF IsFinal(bus) THEN "WAITING_FINAL"
                                        ELSE "WAITING",
                              !.lastStateChangeTime = time]
          ELSE placed

StepMovingRetriesMissingEdge(bus, time) ==
  LET segmentIndex == bus.currentSegment IN
  IF segmentIndex >= Len(bus.path) - 1
  THEN [bus EXCEPT !.state = "FINISHED"]
  ELSE IF ~EdgeFound(StopAt(bus, segmentIndex), StopAt(bus, segmentIndex + 1))
  THEN bus
  ELSE LET elapsed == time - bus.lastStateChangeTime IN
       IF elapsed >= TRAVEL_DURATION
       THEN [bus EXCEPT !.state = IF IsFinal(bus) THEN "WAITING_FINAL"
                                  ELSE "WAITING",
                        !.lastStateChangeTime = time]
       ELSE bus

\* Handle Moving (part_000:286-347); t = Math.min(elapsed / TRAVEL_DURATION, 1)
\* is at least 1 exactly when elapsed >= TRAVEL_DURATION
StepMoving(bus, time) ==
  LET segmentIndex == bus.currentSegment IN
  IF segmentIndex >= Len(bus.path) - 1
  THEN [bus EXCEPT !.state = "FINISHED"]                    \* safety check
  ELSE IF ~EdgeFound(StopAt(bus, segmentIndex), StopAt(bus, segmentIndex + 1))
  THEN [bus EXCEPT !.state = "FINISHED"]                    \* if (!edge)
  ELSE LET fromId == StopAt(bus, segmentIndex)
           toId == StopAt(bus, segmentIndex + 1)
           elapsed == time - bus.lastStateChangeTime
           t == CurveParameter(elapsed)
           laneOffset == LaneOffset(bus.routeId)
           placed == [bus EXCEPT
                        !.x = Coordinate("x", fromId, toId, t, laneOffset),
                        !.y = Coordinate("y", fromId, toId, t, laneOffset),
                        !.rotation = Rotation(fromId, toId, t)]
       IN IF elapsed >= TRAVEL_DURATION
          THEN [placed EXCEPT !.state = IF IsFinal(bus) THEN "WAITING_FINAL"
                                        ELSE "WAITING",
                              !.lastStateChangeTime = time]
          ELSE placed

\* the body of ongoingBuses.forEach
StepBus(bus, time) ==
  IF bus.state \in {"WAITING", "WAITING_FINAL"}
  THEN StepWaiting(bus, time)
  ELSE StepMoving(bus, time)

RemainingKeepsFinished(buses) == buses

RemainingOnlyMoving(buses) == SelectSeq(buses, LAMBDA b : b.state = "MOVING")

\* ongoingBuses.filter(b => b.state !== 'FINISHED')
Remaining(buses) == SelectSeq(buses, LAMBDA b : b.state # "FINISHED")

\* busesFinishedThisFrame.forEach(rId => completedCountsRef.current[rId] =
\*   (completedCountsRef.current[rId] || 0) + 1)
CountCompleted(counts, busesFinishedThisFrame) ==
  [r \in DOMAIN counts \cup
         {busesFinishedThisFrame[i] : i \in 1..Len(busesFinishedThisFrame)} |->
     Get0(counts, r) + Occ(busesFinishedThisFrame, r)]

TelemetryOfActiveRoutesOnly(remainingBuses, counts, routes) ==
  [r \in {remainingBuses[i].routeId : i \in 1..Len(remainingBuses)} |->
     [active |-> Cardinality({i \in 1..Len(remainingBuses) :
                                remainingBuses[i].routeId = r}),
      completed |-> Get0(counts, r)]]

\* the stats object sent to onSimulationUpdate (part_000:364-377)
Telemetry(remainingBuses, counts, routes) ==
  [r \in {routes[k].route_id : k \in 1..Len(routes)} |->
     [active |-> Cardinality({i \in 1..Len(remainingBuses) :
                                remainingBuses[i].routeId = r}),
      completed |-> Get0(counts, r)]]

\* lifecycle states of the vehicles a spawn adds
Born(newBuses) ==
  [id \in {newBuses[i].id : i \in 1..Len(newBuses)} |->
     [routeId |-> (CHOOSE b \in {newBuses[i] : i \in 1..Len(newBuses)} :
                     b.id = id).routeId,
      states |-> <<"MOVING">>]]

\* lifecycle states after a tick took the vehicles from before to after
Recorded(before, after) ==
  [id \in DOMAIN history |->
     IF \E i \in 1..Len(before) :
          before[i].id = id /\ after[i].state # before[i].state
     THEN LET i == CHOOSE i \in 1..Len(before) : before[i].id = id
          IN [history[id] EXCEPT !.states = Append(@, after[i].state)]
     ELSE history[id]]


----------------------------------------------------------------------------
\* Manual mode: the planner (part_001:65-96) and the single vehicle
\* (part_000:171-174, 195-252)

\* stops offered by the two selects that the model follows
SelectStops == {"B1", "B2", "B3", "B7"}

\* NODES[id].label
NodeLabel(id) == id

\* the path of activeRoute, <<>> when activeRoute is null (part_001:65-75)
activeRoute == findPath(sourceId, targetId, EDGES)

StartRejectedNever == FALSE

\* if (!activeRoute) in handleStartAnimation
StartRejected == activeRoute = <<>>

\* the refs as handleSingleBusAnimation finds them, with what it emits
SingleRefs(time) ==
  [state |-> stateRef, segment |-> currentSegmentRef,
   start |-> IF startTimeRef = 0 THEN time ELSE startTimeRef,
   pause |-> pauseTimeRef, reached |-> <<>>, complete |-> FALSE]

\* lines 215-251: the moving part
SingleMoving(r, time) ==
  LET segmentIndex == r.segment IN
  IF segmentIndex >= Len(activeRoute) - 1
  THEN [r EXCEPT !.complete = TRUE]                 \* onAnimationComplete()
  ELSE LET fromId == activeRoute[segmentIndex + 1]
           toId == activeRoute[segmentIndex + 2]
       IN IF ~EdgeFound(fromId, toId) THEN r
          ELSE LET elapsed == time - (IF r.start # 0 THEN r.start ELSE time)
                   isFinal == segmentIndex + 1 = Len(activeRoute) - 1
               IN IF elapsed >= TRAVEL_DURATION
                  THEN [r EXCEPT !.reached = <<NodeLabel(toId)>>,
                                 !.state = IF isFinal THEN "WAITING_FINAL"
                                           ELSE "WAITING",
                                 !.pause = 0]
                  ELSE r

\* lines 196-213: the dwell, falling through to the moving part when an
\* intermediate dwell has run out
SingleWaiting(r, time) ==
  LET pause == IF r.pause = 0 THEN time ELSE r.pause
      elapsedPause == time - pause
      duration == IF r.state = "WAITING_FINAL" THEN DESTINATION_WAIT
                  ELSE STOP_DURATION
  IN IF elapsedPause >= duration
     THEN IF r.state = "WAITING_FINAL"
          THEN [r EXCEPT !.pause = pause, !.complete = TRUE]
          ELSE SingleMoving([r EXCEPT !.state = "MOVING", !.start = time,
                                      !.pause = 0, !.segment = @ + 1], time)
     ELSE [r EXCEPT !.pause = pause]

\* handleSingleBusAnimation(time) (part_000:195-252) after the animate
\* closure set startTimeRef (part_000:173); onAnimationComplete is
\* setIsAnimating(false) (part_001:94-96)
HandleSingleBusAnimation(time) ==
  LET r0 == SingleRefs(time)
      r == IF r0.state \in {"WAITING", "WAITING_FINAL"}
           THEN SingleWaiting(r0, time) ELSE SingleMoving(r0, time)
  IN /\ stateRef' = r.state
     /\ currentSegmentRef' = r.segment
     /\ startTimeRef' = r.start
     /\ pauseTimeRef' = r.pause
     /\ stopReached' = stopReached \o r.reached
     /\ isAnimating' = IF r.complete THEN FALSE ELSE isAnimating

\* the origin select's onChange (part_001:341); the selects are rendered
\* while there is no prediction data
SetSourceId(v) ==
  /\ Mounted
  /\ simulationData = <<>>
  /\ v # sourceId
  /\ sourceId' = v
  /\ tripPath' = IF isAnimating THEN <<>> ELSE tripPath
  /\ UNCHANGED <<appVars, schedPc, pathVars, geom, targetId, isAnimating, stateRef,
                 currentSegmentRef, startTimeRef, pauseTimeRef, requestRef,
                 stopReached>>

\* the destination select's onChange (part_001:361)
SetTargetId(v) ==
  /\ Mounted
  /\ simulationData = <<>>
  /\ v # targetId
  /\ targetId' = v
  /\ tripPath' = IF isAnimating THEN <<>> ELSE tripPath
  /\ UNCHANGED <<appVars, schedPc, pathVars, geom, sourceId, isAnimating, stateRef,
                 currentSegmentRef, startTimeRef, pauseTimeRef, requestRef,
                 stopReached>>

\* handleStartAnimation (part_001:85-92), called while the Manual Trip button
\* is shown (it is hidden once there is prediction data, part_001:413).  The
\* button is also disabled while !activeRoute || isAnimating (part_001:409);
\* the handler repeats both tests itself, and it is the handler that is
\* modelled: a call is an attempt to start a trip.
HandleStartAnimation ==
  /\ Mounted
  /\ simulationData = <<>> /\ ~isSimulating
  /\ IF StartRejected
     THEN /\ toastMessage' = "Cannot start: No valid route exists."
          /\ UNCHANGED <<isAnimating, stopReached, tripPath>>
     ELSE IF isAnimating
     THEN UNCHANGED <<toastMessage, isAnimating, stopReached, tripPath>>
     ELSE /\ isAnimating' = TRUE
          /\ stopReached' = <<>>
          /\ tripPath' = activeRoute
          /\ UNCHANGED toastMessage
  /\ UNCHANGED <<peopleCounts, totalCycles, isPredicting, simulationData, simulationTime,
                 isSimulating, busStats, dispatchSchedule, busesRef,
                 simulatedBuses, completedCountsRef, loopRoutes, now, nextId,
                 history, schedPc, pathVars, geom, uncaught, sourceId,
                 targetId, stateRef, currentSegmentRef, startTimeRef,
                 pauseTimeRef, requestRef>>

----------------------------------------------------------------------------
\* Spec: the application

Init ==
  /\ totalCycles = DefaultCycles
  /\ isPredicting = FALSE
  /\ peopleCounts = EmptyMap
  /\ simulationData = <<>>
  /\ simulationTime = 0
  /\ isSimulating = FALSE
  /\ busStats = EmptyMap
  /\ toastMessage = "null"
  /\ dispatchSchedule = EmptyMap
  /\ busesRef = <<>>
  /\ simulatedBuses = <<>>
  /\ completedCountsRef = EmptyMap
  /\ loopRoutes = <<>>
  /\ now = 0
  /\ nextId = 1
  /\ history = EmptyMap
  /\ InitManual
  /\ geom = GeomIdle /\ uncaught = "none"
  /\ schedPc = "idle"
  /\ startId = "none" /\ endId = "none" /\ edges = <<>> /\ queue = <<>>
  /\ visited = {} /\ result = <<>> /\ pathPc = "idle"

\* The spawner effect (part_000:127-163) run on a fleet: busesRef.current and
\* setSimulatedBuses get the fleet with the new vehicles appended.  When the
\* first stop of a route to spawn is not a key of NODES, startNode is
\* undefined and startNode.x (part_000:151) throws a TypeError out of the
\* effect before anything is appended.
Spawn(newBuses) ==
  IF \E i \in 1..Len(newBuses) : newBuses[i].path[1] \notin NODES
  THEN /\ uncaught' = "TypeError"
       /\ UNCHANGED <<busesRef, simulatedBuses, nextId, history>>
  ELSE /\ nextId + Len(newBuses) - 1 <= MaxVehicles
       /\ busesRef' = busesRef \o newBuses
       /\ simulatedBuses' = IF Len(newBuses) > 0 THEN busesRef \o newBuses
                            ELSE simulatedBuses
       /\ nextId' = nextId + Len(newBuses)
       /\ history' = history @@ Born(newBuses)
       /\ uncaught' = uncaught

\* handlePredict up to the await (part_001:118-135); the button is disabled
\* while isPredicting || isSimulating
HandlePredict ==
  /\ Mounted
  /\ ~isPredicting /\ ~isSimulating
  /\ isPredicting' = TRUE
  /\ UNCHANGED <<peopleCounts, totalCycles, simulationData, simulationTime, isSimulating,
                 busStats, toastMessage, dispatchSchedule, busesRef,
                 simulatedBuses, completedCountsRef, loopRoutes, now, nextId,
                 history, schedPc, pathVars, geom, uncaught, manualVars>>

\* handlePredict after a successful response (part_001:139-150, 156), with
\* the effects of the render it causes: the reset effect (part_000:74-83)
\* clears the counters and generates a schedule; the spawner effect of the
\* same render still reads the schedule of before, and runs when
\* simulationTime or simulationMode changed; the render caused by
\* setDispatchSchedule runs the spawner effect on the new schedule; the
\* animate closure is renewed only when simulationMode changed.
PredictResolve(data) ==
  /\ Mounted
  /\ isPredicting
  /\ \E schedule \in GenerateDispatchSchedule(data, totalCycles) :
       LET first == IF simulationTime # 0 \/ ~simulationMode
                    THEN NewBuses(dispatchSchedule, 0, nextId, now)
                    ELSE <<>>
           second == NewBuses(schedule, 0, nextId + Len(first), now)
       IN /\ Spawn(first \o second)
          /\ dispatchSchedule' = schedule
  /\ simulationData' = <<data>>
  /\ busStats' = EmptyMap
  /\ toastMessage' = "Analysis complete! Starting System Simulation..."
  /\ simulationTime' = 0
  /\ isSimulating' = TRUE
  /\ isPredicting' = FALSE
  /\ completedCountsRef' = EmptyMap
  /\ loopRoutes' = IF simulationMode THEN loopRoutes ELSE data
  /\ isAnimating' = FALSE
  /\ peopleCounts' = SlotCounts
  /\ UNCHANGED <<totalCycles, now, schedPc, pathVars, geom, sourceId, targetId,
                 stateRef, currentSegmentRef, startTimeRef, pauseTimeRef,
                 requestRef, stopReached, tripPath>>

PredictRejectAfterReset ==
  /\ Mounted
  /\ isPredicting
  /\ toastMessage' = "Failed to connect to prediction server."
  /\ isPredicting' = FALSE
  /\ busStats' = EmptyMap
  /\ UNCHANGED <<peopleCounts, totalCycles, simulationData, simulationTime,
                 isSimulating, dispatchSchedule, busesRef, simulatedBuses,
                 completedCountsRef, loopRoutes, now, nextId, history,
                 schedPc, pathVars, geom, uncaught, manualVars>>

\* handlePredict after a failed request (part_001:152-156): fetch rejected,
\* response not ok, or response.json() rejected
PredictReject ==
  /\ Mounted
  /\ isPredicting
  /\ toastMessage' = "Failed to connect to prediction server."
  /\ isPredicting' = FALSE
  /\ UNCHANGED <<peopleCounts, totalCycles, simulationData, simulationTime, isSimulating,
                 busStats, dispatchSchedule, busesRef, simulatedBuses,
                 completedCountsRef, loopRoutes, now, nextId, history,
                 schedPc, pathVars, geom, uncaught, manualVars>>

\* the horizon input's onChange (part_001:235) with the reset effect it
\* triggers (part_000:74-83) and, in simulation mode, the spawner effect run
\* by the render that setDispatchSchedule causes
SetTotalCycles(v) ==
  /\ Mounted
  /\ v # totalCycles
  /\ totalCycles' = v
  /\ IF simulationMode
     THEN \E schedule \in GenerateDispatchSchedule(routesAnalytics, v) :
            /\ completedCountsRef' = EmptyMap
            /\ dispatchSchedule' = schedule
            /\ Spawn(NewBuses(schedule, simulationTime, nextId, now))
     ELSE /\ simulatedBuses' = <<>>
          /\ busesRef' = <<>>
          /\ dispatchSchedule' = EmptyMap
          /\ UNCHANGED <<completedCountsRef, nextId, history, uncaught>>
  /\ UNCHANGED <<peopleCounts, isPredicting, simulationData, simulationTime,
                 isSimulating, busStats, toastMessage, loopRoutes, now,
                 schedPc, pathVars, geom, manualVars>>

ClockFireStopsOneEarly ==
  /\ Mounted
  /\ isSimulating
  /\ IF simulationTime + 1 >= totalCycles
     THEN /\ isSimulating' = FALSE
          /\ UNCHANGED <<simulationTime, busesRef, simulatedBuses, nextId,
                         history, uncaught>>
     ELSE /\ simulationTime < MaxSecond
          /\ simulationTime' = simulationTime + 1
          /\ Spawn(NewBuses(dispatchSchedule, simulationTime + 1, nextId, now))
          /\ UNCHANGED isSimulating
  /\ UNCHANGED <<peopleCounts, totalCycles, isPredicting, simulationData,
                 busStats, toastMessage, dispatchSchedule, completedCountsRef,
                 loopRoutes, schedPc, pathVars, geom, manualVars>>
  /\ now' = now

\* one firing of the interval timer (part_001:41-49) with the spawner effect
\* run by the render of the new simulationTime
ClockFire ==
  /\ Mounted
  /\ isSimulating
  /\ IF simulationTime >= totalCycles
     THEN /\ isSimulating' = FALSE
          /\ UNCHANGED <<simulationTime, busesRef, simulatedBuses, nextId,
                         history, uncaught>>
     ELSE /\ simulationTime < MaxSecond
          /\ simulationTime' = simulationTime + 1
          /\ Spawn(NewBuses(dispatchSchedule, simulationTime + 1, nextId, now))
          /\ UNCHANGED isSimulating
  /\ UNCHANGED <<peopleCounts, totalCycles, isPredicting, simulationData, busStats,
                 toastMessage, dispatchSchedule, completedCountsRef,
                 loopRoutes, schedPc, pathVars, geom, manualVars>>
  /\ now' = now

\* handleStopSimulation (part_001:164-177) with the reset effect's else
\* branch (part_000:79-81); the animate closure is renewed
HandleStopSimulation ==
  /\ Mounted
  /\ simulationData # <<>>
  /\ isSimulating' = FALSE
  /\ simulationTime' = 0
  /\ simulationData' = <<>>
  /\ busStats' = EmptyMap
  /\ toastMessage' = "Simulation stopped. System reset to manual mode."
  /\ simulatedBuses' = <<>>
  /\ busesRef' = <<>>
  /\ dispatchSchedule' = EmptyMap
  /\ loopRoutes' = <<>>
  /\ peopleCounts' = EmptyMap
  /\ UNCHANGED <<totalCycles, isPredicting, completedCountsRef, now, nextId,
                 history, schedPc, pathVars, geom, uncaught, manualVars>>

\* handleMultiBusAnimation(time) (part_000:258-379)
HandleMultiBusAnimation(time) ==
  LET ongoingBuses == SelectSeq(busesRef, LAMBDA b : b.state # "FINISHED")
      stepped == [i \in 1..Len(ongoingBuses) |-> StepBus(ongoingBuses[i], time)]
      finished == SelectSeq(stepped, LAMBDA b : b.state = "FINISHED")
      busesFinishedThisFrame == [i \in 1..Len(finished) |-> finished[i].routeId]
      counts == CountCompleted(completedCountsRef, busesFinishedThisFrame)
      remainingBuses == Remaining(stepped)
  IN /\ completedCountsRef' = counts
     /\ busesRef' = remainingBuses
     /\ simulatedBuses' = remainingBuses
     /\ busStats' = Telemetry(remainingBuses, counts, loopRoutes)
     /\ history' = Recorded(ongoingBuses, stepped)

\* One animation frame, dt after the last (part_000:170-183): the manual
\* branch, the simulation branch, and the request of the next frame.  Only
\* time differences are read (time - bus.lastStateChangeTime, time -
\* pauseTimeRef.current), so the clock of the model stands still over frames
\* that find nothing to process.
animate(dt) ==
  /\ Mounted
  /\ IF ~simulationMode /\ isAnimating /\ activeRoute # <<>>
     THEN /\ now' = now + dt
          /\ HandleSingleBusAnimation(now + dt)
          /\ UNCHANGED <<completedCountsRef, busesRef, simulatedBuses,
                         busStats, history>>
     ELSE IF simulationMode /\ Len(busesRef) > 0
     THEN /\ now' = now + dt
          /\ HandleMultiBusAnimation(now + dt)
          /\ UNCHANGED <<isAnimating, stateRef, currentSegmentRef,
                         startTimeRef, pauseTimeRef, stopReached>>
     ELSE UNCHANGED <<now, completedCountsRef, busesRef, simulatedBuses,
                      busStats, history, isAnimating, stateRef,
                      currentSegmentRef, startTimeRef, pauseTimeRef,
                      stopReached>>
  /\ requestRef' = "requested"
  /\ UNCHANGED <<peopleCounts, totalCycles, isPredicting, simulationData, simulationTime,
                 isSimulating, toastMessage, dispatchSchedule, loopRoutes,
                 nextId, schedPc, pathVars, geom, uncaught, sourceId,
                 targetId, tripPath>>

\* the frame finds a trip or a fleet to process
FrameProcesses ==
  \/ ~simulationMode /\ isAnimating /\ activeRoute # <<>>
  \/ simulationMode /\ Len(busesRef) > 0

\* animate, with the frame timestamp kept within MaxTime
RenderTick(dt) ==
  /\ FrameProcesses => now + dt <= MaxTime
  /\ animate(dt)

Next ==
  \/ HandlePredict
  \/ \E data \in Responses : PredictResolve(data)
  \/ PredictReject
  \/ \E v \in CycleValues : SetTotalCycles(v)
  \/ ClockFire
  \/ HandleStopSimulation
  \/ \E dt \in FrameSteps : RenderTick(dt)

Spec == Init /\ [][Next]_vars

\* ManualSpec: the application in manual use (no prediction is requested)
ManualNext ==
  \/ \E v \in SelectStops : SetSourceId(v)
  \/ \E v \in SelectStops : SetTargetId(v)
  \/ HandleStartAnimation
  \/ \E dt \in FrameSteps : RenderTick(dt)

ManualSpec == Init /\ [][ManualNext]_vars

----------------------------------------------------------------------------
\* Properties of the vehicle lifecycle, checked under Spec

BusIds(buses) == {buses[i].id : i \in 1..Len(buses)}

Last(seq) == seq[Len(seq)]

IsPrefix(s, t) == Len(s) <= Len(t) /\ \A k \in 1..Len(s) : s[k] = t[k]

AllEdgesFound(path) ==
  \A k \in 1..(Len(path) - 1) : EdgeFound(path[k], path[k + 1])

\* MOVING, (WAITING, MOVING) n-2 times, WAITING_FINAL, FINISHED
ExpectedLifecycle(n) ==
  [k \in 1..(2 * n - 1) |->
     IF k = 2 * n - 1 THEN "FINISHED"
     ELSE IF k = 2 * n - 2 THEN "WAITING_FINAL"
     ELSE IF k % 2 = 1 THEN "MOVING" ELSE "WAITING"]

\* C1: the states a vehicle with n >= 2 stops and an edge for every
\* consecutive pair has gone through so far are always a beginning of
\* MOVING, (WAITING, MOVING) n-2 times, WAITING_FINAL, FINISHED: no phase is
\* repeated or skipped, and nothing follows WAITING_FINAL but FINISHED.
C1_LifecycleSequence ==
  \A id \in DOMAIN history :
    LET path == StaticRoute(history[id].routeId).path
    IN (Len(path) >= 2 /\ AllEdgesFound(path))
         => IsPrefix(history[id].states, ExpectedLifecycle(Len(path)))

\* a three-stop vehicle has gone through its whole lifecycle
C1_Witness_ThreeStopsFinished ==
  \E id \in DOMAIN history :
    /\ Len(StaticRoute(history[id].routeId).path) = 3
    /\ history[id].states =
         <<"MOVING", "WAITING", "MOVING", "WAITING_FINAL", "FINISHED">>

\* the vehicles whose lifecycle gains FINISHED in this step, per route
FinishedInStep(r) ==
  {id \in DOMAIN history :
     /\ history[id].routeId = r
     /\ Len(history'[id].states) = Len(history[id].states) + 1
     /\ Last(history'[id].states) = "FINISHED"}

RouteIds == {ROUTES[k].id : k \in 1..Len(ROUTES)}

C2_Step ==
  /\ \A r \in RouteIds :
       LET n == Cardinality(FinishedInStep(r)) IN
       /\ IF n > 0
          THEN Get0(completedCountsRef', r) = Get0(completedCountsRef, r) + n
          ELSE Get0(completedCountsRef', r) \in {Get0(completedCountsRef, r), 0}
       /\ FinishedInStep(r) \cap (BusIds(busesRef') \cup BusIds(simulatedBuses'))
            = {}
       /\ (n > 0 /\ r \in DOMAIN busStats') =>
            /\ busStats'[r].completed = Get0(completedCountsRef', r)
            /\ busStats'[r].active =
                 Cardinality({i \in 1..Len(busesRef') : busesRef'[i].routeId = r})
  /\ \A i \in 1..Len(busesRef') : busesRef'[i].state # "FINISHED"
  /\ \A i \in 1..Len(simulatedBuses') : simulatedBuses'[i].state # "FINISHED"
  /\ \A id \in DOMAIN history' :
       Cardinality({k \in 1..Len(history'[id].states) :
                      history'[id].states[k] = "FINISHED"}) <= 1

\* C2: in the tick in which vehicles become FINISHED the completed counter of
\* their route grows by exactly one per such vehicle and they leave the active
\* set and the rendered list in that tick; the counter grows in no other
\* step, the telemetry of that tick counts a finished vehicle as completed and
\* not as active, no vehicle is FINISHED twice, and after every step neither
\* the active set nor the rendered list holds a FINISHED vehicle.
C2_FinishedCountedOnceAndRemoved == [][C2_Step]_vars

\* a vehicle has finished after its final dwell, is counted once and
\* reported, and is gone
C2_Witness_CountedAndGone ==
  \E id \in DOMAIN history :
    LET r == history[id].routeId IN
    /\ Len(history[id].states) >= 3
    /\ Last(history[id].states) = "FINISHED"
    /\ Get0(completedCountsRef, r) = 1
    /\ r \in DOMAIN busStats /\ busStats[r].completed = 1
    /\ id \notin BusIds(busesRef) \cup BusIds(simulatedBuses)

SegmentBelowLast(bus) ==
  bus.state \in {"MOVING", "WAITING"} => bus.currentSegment < Len(bus.path) - 1

\* C3 as stated: every vehicle in state MOVING or WAITING, of a route with at
\* least one stop, has a segment index strictly less than len(path) - 1.
C3_SegmentBelowLast_AnyRoute ==
  /\ \A i \in 1..Len(busesRef) :
       Len(busesRef[i].path) >= 1 => SegmentBelowLast(busesRef[i])
  /\ \A i \in 1..Len(simulatedBuses) :
       Len(simulatedBuses[i].path) >= 1 => SegmentBelowLast(simulatedBuses[i])

\* C3, amended: every vehicle in state MOVING or WAITING, of a route with at
\* least two stops, has a segment index strictly less than len(path) - 1.
C3_SegmentBelowLast_TwoStops ==
  /\ \A i \in 1..Len(busesRef) :
       Len(busesRef[i].path) >= 2 => SegmentBelowLast(busesRef[i])
  /\ \A i \in 1..Len(simulatedBuses) :
       Len(simulatedBuses[i].path) >= 2 => SegmentBelowLast(simulatedBuses[i])

\* a vehicle is MOVING on the last segment of a three-stop path
C3_Witness_MovingOnLastSegment ==
  \E i \in 1..Len(busesRef) :
    /\ Len(busesRef[i].path) = 3
    /\ busesRef[i].state = "MOVING"
    /\ busesRef[i].currentSegment = 1

----------------------------------------------------------------------------
\* Properties of the logical clock, checked under Spec

\* C10, second part: while a run is active the simulated second lies in
\* [0, horizon].
C10_SecondWithinHorizon ==
  isSimulating => (simulationTime >= 0 /\ simulationTime <= totalCycles)

\* C10, first part: a firing of the timer during a run adds exactly 1 to the
\* simulated second when it is below the horizon, and otherwise leaves it
\* unchanged and ends the running state; no other step of a run that goes on
\* changes the second.
C10_FiringStep ==
  [][(isSimulating /\ simulationTime' # simulationTime /\ isSimulating')
       => (simulationTime < totalCycles
           /\ simulationTime' = simulationTime + 1)]_vars

----------------------------------------------------------------------------
\* Properties of the telemetry, checked under Spec

\* a step is a render tick that processed vehicles exactly when the frame
\* timestamp moved
TickProcessed == now' # now

\* C11: at the end of every render tick that processes vehicles the emitted
\* telemetry has an entry for every route of the current prediction data, with
\* active the number of that route's vehicles in the active set and completed
\* the route's cumulative counter.
C11_TelemetryOfCurrentData ==
  [][TickProcessed =>
       busStats' = Telemetry(busesRef', completedCountsRef', routesAnalytics)]_vars


\* a step inside one simulation run: prediction data before and after, and
\* the step does not start a run (handlePredict's setIsSimulating(true))
WithinRun ==
  /\ simulationData # <<>> /\ simulationData' # <<>>
  /\ ~(isSimulating' /\ ~isSimulating)

\* C12: within one simulation run the completed count of every route, as held
\* by the engine and as reported in successive telemetry snapshots, never
\* decreases.
C12_CompletedNeverDecreasesInRun ==
  [][WithinRun =>
       /\ \A r \in DOMAIN completedCountsRef :
            Get0(completedCountsRef', r) >= completedCountsRef[r]
       /\ \A r \in DOMAIN busStats \cap DOMAIN busStats' :
            busStats'[r].completed >= busStats[r].completed]_vars

----------------------------------------------------------------------------
\* TimelineSpec: one vehicle of the three-stop route, spawned at time 0, under
\* render ticks alone

\* the prediction of the scenario: the three-stop route, one vehicle
TimelineData == <<RouteAnalytics(1, 1, 1)>>

\* time between two frames of the scenario
TimelineSteps == {100, 1000}

\* the state right after handlePredict resolved with TimelineData at time 0:
\* the schedule holds the route at second 0 and the spawner effect has created
\* its vehicle
TimelineInit ==
  /\ totalCycles = DefaultCycles
  /\ isPredicting = FALSE
  /\ peopleCounts = SlotCounts
  /\ simulationData = <<TimelineData>>
  /\ simulationTime = 0
  /\ isSimulating = TRUE
  /\ busStats = EmptyMap
  /\ toastMessage = "Analysis complete! Starting System Simulation..."
  /\ dispatchSchedule \in GenerateDispatchSchedule(TimelineData, DefaultCycles)
  /\ busesRef = NewBuses(dispatchSchedule, 0, 1, 0)
  /\ simulatedBuses = busesRef
  /\ completedCountsRef = EmptyMap
  /\ loopRoutes = TimelineData
  /\ now = 0
  /\ nextId = 2
  /\ history = Born(busesRef)
  /\ InitManual
  /\ geom = GeomIdle /\ uncaught = "none"
  /\ schedPc = "idle"
  /\ startId = "none" /\ endId = "none" /\ edges = <<>> /\ queue = <<>>
  /\ visited = {} /\ result = <<>> /\ pathPc = "idle"

TimelineNext == \E dt \in TimelineSteps : RenderTick(dt)

TimelineSpec == TimelineInit /\ [][TimelineNext]_vars

\* the lifecycle state of the scenario's vehicle after the last tick
TimelineState == Last(history[1].states)

\* C13: the vehicle spawned at time 0 on the three-stop route is MOVING during
\* 0-2000 ms, WAITING during 2000-3000 ms, MOVING during 3000-5000 ms,
\* WAITING_FINAL during 5000-7000 ms and FINISHED at 7000 ms, and the completed
\* count of the route is then 1.
C13_Timeline ==
  /\ (0 <= now /\ now < 2000) => TimelineState = "MOVING"
  /\ (2000 <= now /\ now < 3000) => TimelineState = "WAITING"
  /\ (3000 <= now /\ now < 5000) => TimelineState = "MOVING"
  /\ (5000 <= now /\ now < 7000) => TimelineState = "WAITING_FINAL"
  /\ now >= 7000 =>
       (TimelineState = "FINISHED" /\ Get0(completedCountsRef, 1) = 1)

----------------------------------------------------------------------------
\* Properties of stopping a run, checked under Spec

\* the step of handleStopSimulation: the prediction data goes away
StopStep == simulationData # <<>> /\ simulationData' = <<>>

\* a step taken with no run, before or after
AfterStop == simulationData = <<>> /\ simulationData' = <<>>

\* C14: in the state right after the stop the active vehicle set and the
\* dispatch schedule are empty, the logical clock is 0 and not running and no
\* further tick is requested; no step after the stop evaluates a vehicle or
\* a schedule of the stopped run or delivers telemetry.
C14_StopIsAtomic ==
  [][/\ StopStep =>
          /\ busesRef' = <<>> /\ simulatedBuses' = <<>>
          /\ dispatchSchedule' = EmptyMap
          /\ simulationTime' = 0 /\ ~isSimulating'
          /\ busStats' = EmptyMap
          /\ requestRef' # "requested"
     /\ AfterStop =>
          /\ busesRef' = <<>> /\ simulatedBuses' = <<>>
          /\ dispatchSchedule' = EmptyMap
          /\ busStats' = EmptyMap
          /\ simulationTime' = 0 /\ ~isSimulating'
          /\ history' = history /\ completedCountsRef' = completedCountsRef]_vars

\* C14 without the request of further ticks: what the stop does establish
C14_StopClearsRun ==
  [][/\ StopStep =>
          /\ busesRef' = <<>> /\ simulatedBuses' = <<>>
          /\ dispatchSchedule' = EmptyMap
          /\ simulationTime' = 0 /\ ~isSimulating'
          /\ busStats' = EmptyMap
     /\ AfterStop =>
          /\ busesRef' = <<>> /\ simulatedBuses' = <<>>
          /\ dispatchSchedule' = EmptyMap
          /\ busStats' = EmptyMap
          /\ simulationTime' = 0 /\ ~isSimulating'
          /\ history' = history /\ completedCountsRef' = completedCountsRef]_vars

----------------------------------------------------------------------------
\* Properties of a failed prediction, checked under Spec

\* the step in which a prediction request ends with the failure message
FailureStep ==
  /\ isPredicting /\ ~isPredicting'
  /\ toastMessage' = "Failed to connect to prediction server."

\* C15: a failed prediction request sets the user-visible message and returns
\* the predicting flag to false; people counts, prediction data, telemetry,
\* simulated second, running flag, active vehicles, rendered vehicles,
\* completed counters and dispatch schedule are unchanged, and no request is
\* in flight afterwards.
C15_FailureLeavesStateUntouched ==
  [][(isPredicting /\ ~isPredicting') =>
       \/ (~isSimulating /\ isSimulating')             \* the response was ok
       \/ /\ FailureStep
          /\ UNCHANGED <<peopleCounts, simulationData, busStats, simulationTime,
                         isSimulating, busesRef, simulatedBuses,
                         completedCountsRef, dispatchSchedule, totalCycles,
                         isAnimating>>]_vars

\* a request failed while the vehicles and the telemetry of an earlier
\* prediction were there, and they still are
C15_Witness_FailureDuringEarlierData ==
  /\ toastMessage = "Failed to connect to prediction server."
  /\ ~isPredicting
  /\ simulationData # <<>> /\ peopleCounts = SlotCounts
  /\ busesRef # <<>> /\ busStats # EmptyMap
  /\ dispatchSchedule # EmptyMap

----------------------------------------------------------------------------
\* Properties of manual mode, checked under ManualSpec

\* the stops reachable from a set of stops along at most n edges of EDGES
RECURSIVE NetworkReach(_, _)
NetworkReach(stops, n) ==
  IF n = 0 THEN stops
  ELSE NetworkReach(stops \cup {EDGES[i].to : i \in {j \in 1..Len(EDGES) :
                                                   EDGES[j].from \in stops}},
                    n - 1)

NetworkReachable(a, b) == b \in NetworkReach({a}, Len(EDGES))

TripCompletes == isAnimating /\ ~isAnimating'

\* C17: for every manual trip started on a route with n >= 2 stops, whatever
\* happened before it, the stop-reached signal is emitted exactly once for
\* each of path[1], ..., path[n-1], in path order (during the trip the
\* signals so far are a beginning of that list), and the trip completes only
\* when all of them have been emitted.
C17_StopSignalsOncePerStop ==
  [][/\ (isAnimating' /\ Len(tripPath') >= 2) =>
          IsPrefix(stopReached', Tail(tripPath'))
     /\ (TripCompletes /\ Len(tripPath) >= 2) =>
          stopReached' = Tail(tripPath)]_vars

----------------------------------------------------------------------------
\* Reproducibility of the schedule generator, checked under SchedSpec

\* C18: two runs of the schedule generator on the same inputs produce the
\* same dispatch schedule.  The generator's inputs are routesAnalytics and
\* totalCycles (it draws from Math.random(), which it is not handed and which
\* takes no seed), so the schedule a run has produced is the one every run on
\* these inputs produces.
C18_SameInputsSameSchedule ==
  schedPc = "done" =>
    \A other \in GenerateDispatchSchedule(routesAnalytics, totalCycles) :
      other = dispatchSchedule

----------------------------------------------------------------------------
\* The curve functions (src/utils/geometry.ts) and GeomSpec, which applies
\* them to drawn points

\* largest coordinate drawn
MaxCoord == 1

Point(x, y) == [x |-> x, y |-> y]

GetQuadraticBezierPointMiddleNotFading(t, p0, p1, p2) ==
  LET oneMinusT == 1 - t
  IN Point(oneMinusT * oneMinusT * p0.x + 2 * t * p1.x + t * t * p2.x,
           oneMinusT * oneMinusT * p0.y + 2 * t * p1.y + t * t * p2.y)

\* getQuadraticBezierPoint(t, p0, p1, p2), for t = 0 and t = 1
GetQuadraticBezierPoint(t, p0, p1, p2) ==
  LET oneMinusT == 1 - t
  IN Point(oneMinusT * oneMinusT * p0.x + 2 * oneMinusT * t * p1.x
             + t * t * p2.x,
           oneMinusT * oneMinusT * p0.y + 2 * oneMinusT * t * p1.y
             + t * t * p2.y)

\* calculateControlPoint(start, end, offset), in half units so that
\* (start.x + end.x) / 2 stays in the integers: the result is twice the point
CalculateControlPoint(start, end, offset) ==
  LET twiceMidX == start.x + end.x
      twiceMidY == start.y + end.y
  IN Point(twiceMidX + 2 * offset.x, twiceMidY + 2 * offset.y)

Points == {Point(x, y) : x \in (-MaxCoord)..MaxCoord, y \in (-MaxCoord)..MaxCoord}

GeomInit ==
  /\ geom \in {[pc |-> "call", t |-> t, p0 |-> p0, p1 |-> p1, p2 |-> p2] :
                 t \in {0, 1}, p0 \in Points, p1 \in Points, p2 \in Points}
  /\ totalCycles = DefaultCycles /\ simulationData = <<>>
  /\ dispatchSchedule = EmptyMap /\ schedPc = "idle"
  /\ isPredicting = FALSE /\ simulationTime = 0 /\ isSimulating = FALSE
  /\ peopleCounts = EmptyMap
  /\ busStats = EmptyMap /\ toastMessage = "null"
  /\ busesRef = <<>> /\ simulatedBuses = <<>>
  /\ completedCountsRef = EmptyMap /\ loopRoutes = <<>>
  /\ now = 0 /\ nextId = 1 /\ history = EmptyMap
  /\ uncaught = "none"
  /\ InitManual
  /\ startId = "none" /\ endId = "none" /\ edges = <<>> /\ queue = <<>>
  /\ visited = {} /\ result = <<>> /\ pathPc = "idle"

\* the curve point for the drawn t and control points
GeomPoint ==
  /\ geom.pc = "call"
  /\ geom' = [pc |-> "point", t |-> geom.t, p0 |-> geom.p0, p1 |-> geom.p1,
              p2 |-> geom.p2,
              point |-> GetQuadraticBezierPoint(geom.t, geom.p0, geom.p1,
                                                geom.p2)]
  /\ UNCHANGED <<appVars, schedPc, pathVars, manualVars>>

\* the control point of the edge from p0 to p2 with curvature offset p1
GeomControl ==
  /\ geom.pc = "point"
  /\ geom' = [pc |-> "done", t |-> geom.t, p0 |-> geom.p0, p1 |-> geom.p1,
              p2 |-> geom.p2, point |-> geom.point,
              control |-> CalculateControlPoint(geom.p0, geom.p2, geom.p1)]
  /\ UNCHANGED <<appVars, schedPc, pathVars, manualVars>>

GeomNext == GeomPoint \/ GeomControl

GeomSpec == GeomInit /\ [][GeomNext]_vars

\* C19: the curve point function returns exactly p0 at t = 0 and exactly p2
\* at t = 1, and the control point function returns the midpoint of start and
\* end (the point as far from start as end is from it) plus the offset.
C19_CurveEndpointsAndControlPoint ==
  /\ geom.pc \in {"point", "done"} =>
       /\ geom.t = 0 => geom.point = geom.p0
       /\ geom.t = 1 => geom.point = geom.p2
  /\ geom.pc = "done" =>
       LET twiceMidX == geom.control.x - 2 * geom.p1.x
           twiceMidY == geom.control.y - 2 * geom.p1.y
       IN /\ twiceMidX - 2 * geom.p0.x = 2 * geom.p2.x - twiceMidX
          /\ twiceMidY - 2 * geom.p0.y = 2 * geom.p2.y - twiceMidY

\* at t = 1, with three different control points and an odd coordinate sum
C19_Witness_EndOfCurve ==
  /\ geom.pc = "done" /\ geom.t = 1
  /\ geom.p0 # geom.p2 /\ geom.p1 # geom.p0 /\ geom.p1 # geom.p2
  /\ geom.p1 # Point(0, 0)
  /\ (geom.p0.x + geom.p2.x) % 2 = 1
  /\ geom.point = geom.p2


----------------------------------------------------------------------------
\* Properties of the spawner, checked under Spec

\* vehicles of route r created by the step
SpawnedInStep(r) ==
  Cardinality({id \in DOMAIN history' \ DOMAIN history :
                 history'[id].routeId = r})

\* entries (second, r) of a schedule
EntriesAt(schedule, second, r) ==
  IF second \in DOMAIN schedule THEN Occ(schedule[second], r) ELSE 0

\* the step takes the logical clock to a second: a run starts or the second
\* changes
ClockReachesSecond ==
  \/ simulationData = <<>> /\ simulationData' # <<>>
  \/ simulationTime' # simulationTime

\* C20: every entry (second s, route r) of the dispatch schedule with a
\* defined route results in exactly one vehicle of route r, created at the
\* moment the logical clock equals s, on segment 0 and MOVING; no vehicle is
\* created at any other moment and no entry is spawned twice, whatever the
\* clock firings, schedule rebuilds and horizon edits.  Stated per step: a
\* step that takes the clock to second s creates one vehicle per entry of
\* second s; a step that leaves the clock at s creates vehicles only for
\* entries that second s did not have before the step.
C20_OneVehiclePerEntry ==
  [][/\ \A r \in RouteIds :
          IF ClockReachesSecond
          THEN SpawnedInStep(r) =
                 EntriesAt(dispatchSchedule', simulationTime', r)
          ELSE \/ SpawnedInStep(r) = 0
               \/ SpawnedInStep(r)
                    + EntriesAt(dispatchSchedule, simulationTime, r)
                      <= EntriesAt(dispatchSchedule', simulationTime, r)
     /\ \A i \in 1..Len(busesRef') :
          busesRef'[i].id \notin DOMAIN history =>
            /\ busesRef'[i].currentSegment = 0
            /\ busesRef'[i].state = "MOVING"]_vars

\* C20 for the firings of the clock alone: a firing that moves the clock to
\* second s creates one vehicle per entry of second s, and a firing that
\* ends the run creates none.
C20_ClockFiringSpawns ==
  [][(isSimulating /\ now' = now /\ dispatchSchedule' = dispatchSchedule
        /\ simulationData' = simulationData /\ isPredicting' = isPredicting)
       => \A r \in RouteIds :
            SpawnedInStep(r) =
              IF simulationTime' # simulationTime
              THEN EntriesAt(dispatchSchedule, simulationTime', r)
              ELSE 0]_vars


----------------------------------------------------------------------------
\* Properties of the schedule during a run, checked under Spec

\* C21: the dispatch schedule is built once per simulation run and is
\* immutable thereafter: between the start of a run and its stop or the start
\* of the next run, no step (clock firing, render tick, edit of a
\* configuration input) changes the schedule.
C21_ScheduleImmutableInRun ==
  [][WithinRun => dispatchSchedule' = dispatchSchedule]_vars

\* C21 without the edits of the horizon input: the other steps inside a run
\* leave the schedule alone.
C21_ScheduleKeptWithoutHorizonEdit ==
  [][(WithinRun /\ totalCycles' = totalCycles)
       => dispatchSchedule' = dispatchSchedule]_vars


\* C22: in every telemetry snapshot of a simulation run and for every route r
\* of the current prediction data, active(r) + completed(r) is at most
\* buses_allocated(r).
C22_ActivePlusCompletedWithinAllocation ==
  simulationData # <<>> =>
    \A k \in 1..Len(routesAnalytics) :
      LET r == routesAnalytics[k].route_id
      IN r \in DOMAIN busStats =>
           busStats[r].active + busStats[r].completed
             <= routesAnalytics[k].buses_allocated


----------------------------------------------------------------------------
\* Properties of routing faults, checked under Spec

\* a MOVING vehicle whose pair (current stop, next stop) has no edge
MissingEdge(bus) ==
  /\ bus.state = "MOVING"
  /\ bus.currentSegment < Len(bus.path) - 1
  /\ ~EdgeFound(StopAt(bus, bus.currentSegment),
                StopAt(bus, bus.currentSegment + 1))

\* a vehicle without routing fault whose phase has run out at the given time
PhaseOver(bus, time) ==
  \/ /\ bus.state = "MOVING"
     /\ bus.currentSegment < Len(bus.path) - 1
     /\ ~MissingEdge(bus)
     /\ time - bus.lastStateChangeTime >= TRAVEL_DURATION
  \/ /\ bus.state = "WAITING"
     /\ time - bus.lastStateChangeTime > STOP_DURATION
  \/ /\ bus.state = "WAITING_FINAL"
     /\ time - bus.lastStateChangeTime > DESTINATION_WAIT

\* C23: when a MOVING vehicle's pair (current stop, next stop) has no edge,
\* the vehicle goes to FINISHED in that tick without an exception and is
\* never retried or returned to MOVING, and every other vehicle of the active
\* set is still advanced in the same tick and in later ticks.
C23_MissingEdgeFinishesVehicleOnly ==
  [][/\ TickProcessed =>
          /\ uncaught' = "none"
          /\ \A i \in 1..Len(busesRef) :
               LET bus == busesRef[i] IN
               /\ MissingEdge(bus) =>
                    /\ history'[bus.id].states
                         = Append(history[bus.id].states, "FINISHED")
                    /\ bus.id \notin BusIds(busesRef')
               /\ PhaseOver(bus, now') =>
                    /\ Len(history'[bus.id].states)
                         = Len(history[bus.id].states) + 1
                    /\ Last(history'[bus.id].states) # bus.state
               /\ (~MissingEdge(bus) /\ ~PhaseOver(bus, now')
                     /\ bus.currentSegment < Len(bus.path) - 1) =>
                    \E j \in 1..Len(busesRef') :
                      /\ busesRef'[j].id = bus.id
                      /\ busesRef'[j].state = bus.state
                      /\ busesRef'[j].currentSegment = bus.currentSegment
                      /\ busesRef'[j].lastStateChangeTime
                           = bus.lastStateChangeTime
     /\ \A id \in DOMAIN history :
          Last(history[id].states) = "FINISHED" =>
            /\ history'[id] = history[id]
            /\ id \notin BusIds(busesRef')]_vars

\* the tick at time 5000 finds the B3 to B1 pair of route 4 without edge and
\* finishes that vehicle, and in the same tick ends the final dwell of the
\* vehicle of route 2 that was spawned with it
C23_Witness_FaultAndOtherVehicleSameTick ==
  /\ now = 5000
  /\ \E a \in DOMAIN history, b \in DOMAIN history :
       /\ history[a].routeId = 4
       /\ history[a].states = <<"MOVING", "WAITING", "MOVING", "FINISHED">>
       /\ history[b].routeId = 2
       /\ history[b].states = <<"MOVING", "WAITING_FINAL", "FINISHED">>
  /\ uncaught = "none"


----------------------------------------------------------------------------
\* FaultSpec: a run whose prediction names route 5, the route whose first
\* stop is missing from the stop table

\* data.routes of that prediction
FaultData == <<RouteAnalytics(2, 1, 1), RouteAnalytics(5, 1, 2)>>

FaultNext ==
  \/ HandlePredict
  \/ PredictResolve(FaultData)
  \/ ClockFire
  \/ HandleStopSimulation
  \/ \E dt \in FrameSteps : RenderTick(dt)

FaultSpec == Init /\ [][FaultNext]_vars

\* C24: when a route's stop sequence references a stop id that is missing
\* from the stop table (as first stop, as current stop or as next stop),
\* neither spawning nor any render tick raises an exception.
C24_MissingStopRaisesNothing == uncaught = "none"

\* every edge of EDGES joins two stops of the table, so that a pair with a
\* missing stop has no edge and a render tick finishes its vehicle before
\* reading the stop's coordinates (part_000:301-305 before 307-311)
EdgesJoinKnownStops ==
  \A i \in 1..Len(EDGES) : EDGES[i].from \in NODES /\ EDGES[i].to \in NODES


----------------------------------------------------------------------------
\* Properties of the way into FINISHED, checked under Spec

\* FINISHED is entered from WAITING_FINAL in the lifecycle of the vehicle
FinishedFromFinalWait(id) ==
  \A k \in 1..Len(history[id].states) :
    history[id].states[k] = "FINISHED" =>
      k > 1 /\ history[id].states[k - 1] = "WAITING_FINAL"

\* C25: a vehicle enters FINISHED only from WAITING_FINAL after its final
\* dwell, the missing edge being the only exception: for every route with at
\* least one stop whose edges all exist, a single-stop route included, the
\* vehicle never goes from MOVING directly to FINISHED.
C25_FinishedOnlyAfterFinalWait ==
  \A id \in DOMAIN history :
    LET path == StaticRoute(history[id].routeId).path
    IN (Len(path) >= 1 /\ AllEdgesFound(path)) => FinishedFromFinalWait(id)

\* C25 for the routes of two and more stops: a vehicle of a route with at
\* least two stops whose edges all exist enters FINISHED only from
\* WAITING_FINAL, never from MOVING directly.
C25_FinishedOnlyAfterFinalWait_TwoStops ==
  \A id \in DOMAIN history :
    LET path == StaticRoute(history[id].routeId).path
    IN (Len(path) >= 2 /\ AllEdgesFound(path)) => FinishedFromFinalWait(id)


----------------------------------------------------------------------------
\* LiveSpec: one run to the end of its horizon, under the logical clock and
\* the animation frames, both of which keep coming (the interval timer of
\* part_001:41-49 while isSimulating, and the frame that animate requests
\* again at the end of every frame, part_000:182)

\* data.routes of the run
LiveData == <<RouteAnalytics(1, 1, 1), RouteAnalytics(2, 1, 2)>>

\* the state right after handlePredict resolved with LiveData at time 0 under
\* a horizon of MaxSecond seconds
LiveInit ==
  /\ totalCycles = MaxSecond
  /\ isPredicting = FALSE
  /\ peopleCounts = SlotCounts
  /\ simulationData = <<LiveData>>
  /\ simulationTime = 0
  /\ isSimulating = TRUE
  /\ busStats = EmptyMap
  /\ toastMessage = "Analysis complete! Starting System Simulation..."
  /\ dispatchSchedule \in GenerateDispatchSchedule(LiveData, MaxSecond)
  /\ busesRef = NewBuses(dispatchSchedule, 0, 1, 0)
  /\ simulatedBuses = busesRef
  /\ completedCountsRef = EmptyMap
  /\ loopRoutes = LiveData
  /\ now = 0
  /\ nextId = Len(busesRef) + 1
  /\ history = Born(busesRef)
  /\ InitManual
  /\ geom = GeomIdle /\ uncaught = "none"
  /\ schedPc = "idle"
  /\ startId = "none" /\ endId = "none" /\ edges = <<>> /\ queue = <<>>
  /\ visited = {} /\ result = <<>> /\ pathPc = "idle"

LiveNext ==
  \/ ClockFire
  \/ \E dt \in FrameSteps : animate(dt)

LiveSpec ==
  /\ LiveInit /\ [][LiveNext]_vars
  /\ WF_vars(ClockFire)
  /\ WF_vars(\E dt \in FrameSteps : animate(dt))

\* the vehicle has reached FINISHED and has left the active set
FinishedAndRemoved(id) ==
  /\ id \in DOMAIN history
  /\ Last(history[id].states) = "FINISHED"
  /\ id \notin BusIds(busesRef)

\* the last telemetry snapshot reports no active vehicle on any route
NoneActive ==
  /\ busesRef = <<>>
  /\ DOMAIN busStats = {LiveData[k].route_id : k \in 1..Len(LiveData)}
  /\ \A r \in DOMAIN busStats : busStats[r].active = 0

\* C26: under fair render ticks with strictly advancing time and no stop,
\* every spawned vehicle eventually reaches FINISHED and is removed from the
\* active set, and after the logical clock has stopped the active set
\* eventually becomes empty, the final telemetry snapshot reporting
\* active = 0 for every route.
C26_EveryVehicleFinishes ==
  /\ \A id \in 1..MaxVehicles :
       (id \in DOMAIN history) ~> FinishedAndRemoved(id)
  /\ (~isSimulating) ~> [](NoneActive)

\* the clock has stopped at the horizon, both vehicles of the run went
\* through their whole lifecycle and the last snapshot shows none active
C26_Witness_RunDrained ==
  /\ ~isSimulating /\ simulationTime = totalCycles
  /\ DOMAIN history = {1, 2}
  /\ FinishedAndRemoved(1) /\ FinishedAndRemoved(2)
  /\ Len(history[1].states) + Len(history[2].states) = 8
  /\ NoneActive


----------------------------------------------------------------------------
\* ClockSpec: one run under each horizon the input accepts and the model can
\* count to, under the logical clock and the animation frames

\* parseInt(e.target.value) || 0 (part_001:235) takes every integer, the
\* negative ones included
ClockHorizons == {h - 1 : h \in 0..(MaxSecond + 1)}

\* the state right after handlePredict resolved with LiveData at time 0 under
\* one of the horizons
ClockInit ==
  /\ totalCycles \in ClockHorizons
  /\ isPredicting = FALSE
  /\ peopleCounts = SlotCounts
  /\ simulationData = <<LiveData>>
  /\ simulationTime = 0
  /\ isSimulating = TRUE
  /\ busStats = EmptyMap
  /\ toastMessage = "Analysis complete! Starting System Simulation..."
  /\ dispatchSchedule \in GenerateDispatchSchedule(LiveData, totalCycles)
  /\ busesRef = NewBuses(dispatchSchedule, 0, 1, 0)
  /\ simulatedBuses = busesRef
  /\ completedCountsRef = EmptyMap
  /\ loopRoutes = LiveData
  /\ now = 0
  /\ nextId = Len(busesRef) + 1
  /\ history = Born(busesRef)
  /\ InitManual
  /\ geom = GeomIdle /\ uncaught = "none"
  /\ schedPc = "idle"
  /\ startId = "none" /\ endId = "none" /\ edges = <<>> /\ queue = <<>>
  /\ visited = {} /\ result = <<>> /\ pathPc = "idle"

ClockNext ==
  \/ ClockFire
  \/ \E dt \in FrameSteps : animate(dt)

ClockSpec ==
  /\ ClockInit /\ [][ClockNext]_vars
  /\ WF_vars(ClockFire)
  /\ WF_vars(\E dt \in FrameSteps : animate(dt))

\* the simulated second equals the horizon and the running flag is false
StoppedAtHorizon == ~isSimulating /\ simulationTime = totalCycles

\* C27: under fair firing of the timer, with no stop and no change of the
\* horizon, every started run eventually reaches a state in which the
\* simulated second equals the horizon and the running flag is false, and
\* from then on the second stays at the horizon.
C27_RunEndsAtHorizon ==
  /\ isSimulating ~> StoppedAtHorizon
  /\ [][StoppedAtHorizon => StoppedAtHorizon']_vars

\* C27 for the horizons from 0 on: every started run with a horizon of at
\* least 0 eventually reaches a state in which the simulated second equals
\* the horizon and the running flag is false, and from then on the second
\* stays at the horizon.
C27_RunEndsAtHorizon_NonNegative ==
  /\ (isSimulating /\ totalCycles >= 0) ~> StoppedAtHorizon
  /\ [][StoppedAtHorizon => StoppedAtHorizon']_vars

\* the clock counted from 0 to the largest horizon and then stopped
C27_Witness_StoppedAfterCounting ==
  /\ StoppedAtHorizon
  /\ totalCycles = MaxSecond /\ simulationTime = MaxSecond


\* a vehicle of the two-stop route has reached index len(path) - 1 = 1 and
\* finished out of its final dwell, and has been counted and removed
C25_Witness_FinishedAfterFinalWait ==
  \E a \in DOMAIN history :
    /\ history[a].routeId = 2
    /\ history[a].states = <<"MOVING", "WAITING_FINAL", "FINISHED">>
    /\ a \notin BusIds(busesRef)
    /\ Get0(completedCountsRef, 2) >= 1


----------------------------------------------------------------------------
\* Properties of the active set under spawns and render ticks, checked under
\* Spec

\* C28: under every interleaving of spawns and render ticks, each running to
\* completion, a vehicle added to the active set by a spawn is never dropped
\* or overwritten by a render tick: it stays in the active set until the tick
\* in which it becomes FINISHED or until a stop clears the set.
C28_VehicleStaysUntilFinishedOrStop ==
  [][\A i \in 1..Len(busesRef) :
       LET bus == busesRef[i] IN
       \/ StopStep
       \/ /\ TickProcessed
          /\ \/ /\ bus.id \notin BusIds(busesRef')
                /\ Last(history'[bus.id].states) = "FINISHED"
             \/ /\ Cardinality({j \in 1..Len(busesRef') :
                                  busesRef'[j].id = bus.id}) = 1
                /\ \A j \in 1..Len(busesRef') :
                     busesRef'[j].id = bus.id =>
                       /\ busesRef'[j].routeId = bus.routeId
                       /\ busesRef'[j].path = bus.path
                       /\ busesRef'[j].state = Last(history'[bus.id].states)
       \/ /\ ~TickProcessed
          /\ Len(busesRef') >= i
          /\ busesRef'[i] = bus]_vars

\* two vehicles of route 1, which has one bus, are in the active set: the
\* second was spawned by a schedule rebuild after a tick had advanced the
\* first, and a later tick has advanced both
C28_Witness_SpawnBetweenTicks ==
  \E i \in 1..Len(busesRef), j \in 1..Len(busesRef) :
    /\ busesRef[i].id < busesRef[j].id
    /\ busesRef[i].routeId = 1 /\ busesRef[j].routeId = 1
    /\ Len(history[busesRef[j].id].states) >= 2
    /\ Len(history[busesRef[i].id].states) > Len(history[busesRef[j].id].states)


----------------------------------------------------------------------------
\* Properties of the delivery of telemetry, checked under Spec

\* C29: during a simulation run a telemetry mapping with an entry for every
\* known route is delivered on every render tick, the ticks without active
\* vehicle included, so that from the start of the run the consumer never
\* observes a known route without an entry.
C29_EveryKnownRouteHasEntry ==
  simulationData # <<>> =>
    \A k \in 1..Len(routesAnalytics) :
      routesAnalytics[k].route_id \in DOMAIN busStats


----------------------------------------------------------------------------
\* Properties of the phase durations, checked under Spec

\* the step takes the vehicle out of its phase
LeavesPhase(bus) ==
  Len(history'[bus.id].states) > Len(history[bus.id].states)

\* the shortest stay in the phase the vehicle is in; the travel time is one
\* and the same for every edge
PhaseDuration(bus) ==
  IF bus.state = "MOVING" THEN TRAVEL_DURATION
  ELSE IF bus.state = "WAITING" THEN STOP_DURATION
  ELSE DESTINATION_WAIT

\* the vehicle left its phase in time: MOVING not before the travel time is
\* over, a dwell only after more than its duration
LeftInTime(bus) ==
  IF bus.state = "MOVING"
  THEN now' - bus.lastStateChangeTime >= PhaseDuration(bus)
  ELSE now' - bus.lastStateChangeTime > PhaseDuration(bus)

\* C30: no vehicle leaves a phase early: a vehicle that entered MOVING at m
\* is still MOVING at every tick with time < m + segmentTravelMs, one that
\* entered WAITING or WAITING_FINAL at w leaves it only at a tick with time
\* > w + its dwell, and the travel duration does not depend on the edge.
C30_NoPhaseLeftEarly ==
  [][\A i \in 1..Len(busesRef) :
       LeavesPhase(busesRef[i]) => LeftInTime(busesRef[i])]_vars

\* C30 for the vehicles that travel on an edge: a vehicle that entered
\* MOVING at m on a segment whose edge exists is still MOVING at every tick
\* with time < m + segmentTravelMs, and a vehicle that entered WAITING or
\* WAITING_FINAL at w leaves it only at a tick with time > w + its dwell.
C30_NoPhaseLeftEarly_OnEdges ==
  [][\A i \in 1..Len(busesRef) :
       LET bus == busesRef[i] IN
       (/\ LeavesPhase(bus)
        /\ bus.state = "MOVING" =>
             /\ bus.currentSegment < Len(bus.path) - 1
             /\ ~MissingEdge(bus))
         => LeftInTime(bus)]_vars

\* a tick at exactly w + stopDwellMs has found the vehicle of the three-stop
\* route in WAITING and has left it there
C30_Witness_StillWaitingAtDwell ==
  \E i \in 1..Len(busesRef) :
    /\ busesRef[i].routeId = 1
    /\ busesRef[i].state = "WAITING"
    /\ now = busesRef[i].lastStateChangeTime + STOP_DURATION


----------------------------------------------------------------------------
\* LaneSpec: two vehicles over the same path, spawned at the same time, of
\* routes 1 and 6 whose lanes differ, under animation frames

\* data.routes of the run
LaneData == <<RouteAnalytics(1, 1, 1), RouteAnalytics(6, 1, 1)>>

\* time between two frames
LaneSteps == TimelineSteps \cup FrameSteps

\* the state right after handlePredict resolved with LaneData at time 0: both
\* routes are scheduled for second 0 and the spawner effect has created their
\* vehicles
LaneInit ==
  /\ totalCycles = MaxSecond
  /\ isPredicting = FALSE
  /\ peopleCounts = SlotCounts
  /\ simulationData = <<LaneData>>
  /\ simulationTime = 0
  /\ isSimulating = TRUE
  /\ busStats = EmptyMap
  /\ toastMessage = "Analysis complete! Starting System Simulation..."
  /\ dispatchSchedule \in GenerateDispatchSchedule(LaneData, MaxSecond)
  /\ busesRef = NewBuses(dispatchSchedule, 0, 1, 0)
  /\ simulatedBuses = busesRef
  /\ completedCountsRef = EmptyMap
  /\ loopRoutes = LaneData
  /\ now = 0
  /\ nextId = Len(busesRef) + 1
  /\ history = Born(busesRef)
  /\ InitManual
  /\ geom = GeomIdle /\ uncaught = "none"
  /\ schedPc = "idle"
  /\ startId = "none" /\ endId = "none" /\ edges = <<>> /\ queue = <<>>
  /\ visited = {} /\ result = <<>> /\ pathPc = "idle"

LaneNext == \E dt \in LaneSteps : animate(dt)

LaneSpec == LaneInit /\ [][LaneNext]_vars

\* the vehicles of the active set with the given route
OfRoute(r) == SelectSeq(busesRef, LAMBDA b : b.routeId = r)

\* C31: the lane offset does not influence vehicle logic: two vehicles with
\* the same path and the same spawn time that differ only in their route id,
\* hence in lane offset, have at every tick the same lifecycle state, the
\* same segment index and the same last-transition timestamp, and they
\* finish in the same tick.
C31_LaneOffsetDoesNotInfluenceLogic ==
  /\ history[1].routeId # history[2].routeId
  /\ history[1].states = history[2].states
  /\ Len(OfRoute(1)) = Len(OfRoute(6))
  /\ Get0(completedCountsRef, 1) = Get0(completedCountsRef, 6)
  /\ \A i \in 1..Len(OfRoute(1)) :
       LET a == OfRoute(1)[i]
           b == OfRoute(6)[i]
       IN /\ a.path = b.path
          /\ a.state = b.state
          /\ a.currentSegment = b.currentSegment
          /\ a.lastStateChangeTime = b.lastStateChangeTime

\* both vehicles are half way along the second segment, each in its own lane
C31_Witness_SideBySide ==
  /\ Len(OfRoute(1)) = 1 /\ Len(OfRoute(6)) = 1
  /\ OfRoute(1)[1].state = "MOVING" /\ OfRoute(1)[1].currentSegment = 1
  /\ OfRoute(1)[1].x.t = 500 /\ OfRoute(6)[1].x.t = 500
  /\ OfRoute(1)[1].x.offset # OfRoute(6)[1].x.offset


----------------------------------------------------------------------------
\* Properties of the position of a waiting vehicle, checked under Spec

\* the two records show the same position and heading
SamePlace(a, b) == a.x = b.x /\ a.y = b.y /\ a.rotation = b.rotation

\* C32: every render tick that finds a vehicle in WAITING or WAITING_FINAL
\* leaves that vehicle's position (x, y) and heading unchanged, the tick in
\* which its dwell expires and it goes to MOVING or FINISHED included.
C32_WaitingVehicleKeepsPlace ==
  [][TickProcessed =>
       \A i \in 1..Len(busesRef) :
         LET bus == busesRef[i] IN
         bus.state \in {"WAITING", "WAITING_FINAL"} =>
           /\ SamePlace(StepBus(bus, now'), bus)
           /\ \A j \in 1..Len(busesRef') :
                busesRef'[j].id = bus.id => SamePlace(busesRef'[j], bus)
           /\ bus.id \notin BusIds(busesRef') =>
                StepBus(bus, now').state = "FINISHED"]_vars

\* the tick at this time has ended the dwell of the vehicle of route 1 at B2
\* and set it MOVING on its second segment, and the vehicle is still where it
\* arrived, at the end of its first segment
C32_Witness_LeftDwellInPlace ==
  \E i \in 1..Len(busesRef) :
    /\ busesRef[i].routeId = 1
    /\ busesRef[i].state = "MOVING" /\ busesRef[i].currentSegment = 1
    /\ busesRef[i].lastStateChangeTime = now
    /\ busesRef[i].x = Coordinate("x", "B1", "B2", 1000, LaneOffset(1))
    /\ busesRef[i].rotation = Rotation("B1", "B2", 1000)


----------------------------------------------------------------------------
\* Properties of colliding dispatch seconds, checked under SchedSpec

\* the entries the loop of one route pushes: its windows i < busesToSchedule
\* with maxTime > minTime
ScheduledCount(route) ==
  LET freq == route.frequency_minutes
      n == BusesToSchedule(route.buses_allocated, totalCycles, freq)
  IN Cardinality({i \in 0..(n - 1) :
                    Min(WindowEnd(i, freq), totalCycles) > WindowStart(i, freq)})

\* C33: the schedule holds as many entries as the routes pushed, in total and
\* route by route, whichever seconds were drawn: an entry drawn for a second
\* that is already in the schedule is added to the list of that second.
C33_CollisionsLoseNoEntry ==
  schedPc = "done" =>
    /\ TotalEntries(dispatchSchedule)
         = SumOver([k \in 1..Len(routesAnalytics) |-> ScheduledCount(routesAnalytics[k])],
                   1..Len(routesAnalytics))
    /\ \A k \in 1..Len(routesAnalytics) :
         Entries(dispatchSchedule, routesAnalytics[k].route_id)
           = ScheduledCount(routesAnalytics[k])

\* two routes drew the same second, and both are listed under it
C33_Witness_TwoRoutesOneSecond ==
  /\ schedPc = "done"
  /\ Len(routesAnalytics) = 2
  /\ \E s \in DOMAIN dispatchSchedule :
       /\ Len(dispatchSchedule[s]) = 2
       /\ dispatchSchedule[s][1] = routesAnalytics[1].route_id
       /\ dispatchSchedule[s][2] = routesAnalytics[2].route_id


----------------------------------------------------------------------------
\* Properties of the frontier queue, checked under PathSpec

\* the stops placed on the queue so far: the start stop by the initial queue
\* (graph.ts:7), every other one together with its visited.add (graph.ts:27-28)
Placed == IF pathPc = "loop" THEN {startId} \cup visited ELSE {}

\* the entries a step puts on the queue: the whole queue in the step that
\* builds it, the entries behind the old ones in a step of the loop
Pushed ==
  IF pathPc = "call" THEN queue'
  ELSE IF queue = <<>> THEN <<>>
  ELSE SubSeq(queue', Len(queue), Len(queue'))

\* C34: no step places on the queue a stop that was placed on it before, nor
\* the same stop twice.
C34_EachStopEnqueuedOnce ==
  [][/\ \A i \in 1..Len(Pushed) : Pushed[i].id \notin Placed
     /\ \A i, j \in 1..Len(Pushed) : Pushed[i].id = Pushed[j].id => i = j]_vars

\* the same for every stop but the start stop
C34_OtherStopsEnqueuedOnce ==
  [][/\ \A i \in 1..Len(Pushed) :
          Pushed[i].id # startId => Pushed[i].id \notin Placed
     /\ \A i, j \in 1..Len(Pushed) : Pushed[i].id = Pushed[j].id => i = j]_vars

\* the start stop is on the queue again, behind a path that left it
StartStopEnqueuedAgain ==
  /\ pathPc = "loop"
  /\ \E i \in 1..Len(queue) : queue[i].id = startId /\ Len(queue[i].path) > 1


----------------------------------------------------------------------------
\* Termination of findPath

\* findPath is a synchronous function: once called, its next step is taken
\* as long as it has one.
PathLiveSpec == PathInit /\ [][PathNext]_vars /\ WF_vars(PathNext)

\* C35: every call of findPath returns, whatever the edge list and the two
\* stops.
C35_FindPathTerminates == <>(pathPc = "return")

\* findPath has returned null after a search over an edge list with a
\* duplicate edge and a self-loop, for an end stop that no edge names
C35_Witness_ReturnedThroughCycle ==
  /\ pathPc = "return" /\ result = <<>>
  /\ startId # endId
  /\ visited # {}
  /\ \A i \in 1..Len(edges) : edges[i].from # endId /\ edges[i].to # endId
  /\ \E i, j \in 1..Len(edges) : i # j /\ edges[i] = edges[j]
  /\ \E i \in 1..Len(edges) : edges[i].from = edges[i].to

====
